---- MODULE Spec2Model ----
(***************************************************************************)
(* The tactical decision core of the combat bot: the combat mechanics      *)
(* (GameMechanics), the per-agent action generators and expectimax of      *)
(* SmartGameAI, the Smitsimax search, and the turn loop of main with its   *)
(* priority target, collision arbitration, focus-fire override, output     *)
(* loop and exception handler.                                             *)
(*                                                                         *)
(* Numbers.  Scores (expected_value) are doubles in the program; every     *)
(* score the modelled code computes is an integer (the factors 1.5, 2.0,   *)
(* 5.0 and 0.3 are applied to even numbers resp. multiples of 100), so the  *)
(* model keeps them as integers; x > y * 0.8 is compared as 10x > 8y and    *)
(* x > y * 0.5 as 2x > y.  kill_probability is kept in percent             *)
(* (100 stands for 1.0).  A cover multiplier is kept in quarters           *)
(* (4 = 1.0, 2 = 0.5, 1 = 0.25).                                            *)
(***************************************************************************)
EXTENDS Integers, Sequences, FiniteSets, TLC

VARIABLES
    all_agents_data,      \* ai.all_agents_data: agent id -> AgentData
    my_agent_ids,         \* ai.my_agent_ids
    board_width,          \* ai.board_width
    board_height,         \* ai.board_height
    tile_map,             \* ai.tile_map[y][x]
    turn_number,          \* main: turn_number
    pc,                   \* main: position in the turn loop
    current_my_agents,    \* main: this turn's controlled agents
    current_enemy_agents, \* main: this turn's opposing agents
    my_agent_count,       \* main: expected number of output lines
    agent_decisions,      \* main: the finalized decision of each listed controlled
                          \* agent, in list order (the map is keyed by the agent's id)
    movement_blacklist,   \* main: destination tiles reserved this turn
    out,                  \* the lines written to cout in this turn
    raised,               \* history: the latest decided turn ended in the catch block
    prev_raised,          \* history, while a turn's output is pending: the turn
                          \* before it ended in the catch block
    call,                 \* the function under way and its arguments or locals
    ret,                  \* pure-function harness: the value returned
    smitsimax_used,       \* main: use_smitsimax, this turn's decisions come from the search
    root,                 \* smitsimax_search: the tree under the root node
    iteration,            \* smitsimax_search: the loop counter
    expired,              \* smitsimax_search: elapsed.count() > time_limit_ms by now
    overrun,              \* history: iterations begun since the time limit expired
    result,               \* smitsimax_search: the joint action returned
    sim                   \* reference_integration: the SimulationState of a rollout

vars == <<all_agents_data, my_agent_ids, board_width, board_height, tile_map,
          turn_number, pc, current_my_agents, current_enemy_agents,
          my_agent_count, agent_decisions, movement_blacklist, out, raised,
          prev_raised, call, ret, smitsimax_used, root, iteration, expired, overrun,
          result, sim>>

(***************************************************************************)
(* Program constants                                                       *)
(***************************************************************************)
THROW_DAMAGE == 30
THROW_DISTANCE_MAX == 4

(***************************************************************************)
(* Arithmetic helpers                                                      *)
(***************************************************************************)
Abs(n) == IF n < 0 THEN -n ELSE n
Max(a, b) == IF a > b THEN a ELSE b
Min(a, b) == IF a < b THEN a ELSE b

\* C++ conversion of a rational n/d (d > 0) to int: truncation toward zero.
Trunc(n, d) == IF n >= 0 THEN n \div d ELSE -((-n) \div d)

\* Mathematical floor of n/d (d > 0).
Floor(n, d) == n \div d

\* The elements of s stored one by one (a vector's contents).
Vec(s) == s \o <<>>

RECURSIVE Concat(_)
Concat(ss) == IF ss = <<>> THEN <<>> ELSE Head(ss) \o Concat(Tail(ss))

\* Reverse of a sequence (vector::insert at begin() repeated).
Reverse(s) == Vec([i \in 1..Len(s) |-> s[Len(s) + 1 - i]])

\* Index of the first element of s with the greatest expected_value.
FirstMaxIdx(s) ==
    CHOOSE i \in 1..Len(s) :
        /\ \A j \in 1..Len(s) : s[j].expected_value <= s[i].expected_value
        /\ \A j \in 1..(i - 1) : s[j].expected_value < s[i].expected_value

\* The loop "for c in cands: if (c.expected_value > best.expected_value) best = c"
\* started with best = base.
BestStrict(base, cands) ==
    LET stored == Vec(cands)
    IN IF \E i \in 1..Len(stored) : stored[i].expected_value > base.expected_value
       THEN stored[FirstMaxIdx(stored)]
       ELSE base

(***************************************************************************)
(* GameMechanics                                                           *)
(***************************************************************************)
\* Mutant: the final max(0, base_damage) left out.
calculate_exact_shooting_damage_unclamped(soaking_power, optimal_range, distance) ==
    IF distance > optimal_range \/ distance = 0 THEN 0
    ELSE IF distance > 1
         THEN Trunc(soaking_power * (5 - distance), 4)
         ELSE soaking_power

\* base_damage * (1.0 - 0.25 * (distance - 1)) is exact in doubles: it is
\* soaking_power * (5 - distance) / 4, converted to int by truncation.
calculate_exact_shooting_damage(soaking_power, optimal_range, distance) ==
    IF distance > optimal_range \/ distance = 0 THEN 0
    ELSE LET base_damage == IF distance > 1
                            THEN Trunc(soaking_power * (5 - distance), 4)
                            ELSE soaking_power
         IN Max(0, base_damage)

\* Mutant: the splash reaches one tile further.
calculate_exact_bomb_damage_radius2(splash_distance, is_hunkered) ==
    IF splash_distance > 2 THEN 0
    ELSE IF is_hunkered THEN Trunc(THROW_DAMAGE, 2) ELSE THROW_DAMAGE

calculate_exact_bomb_damage(splash_distance, is_hunkered) ==
    IF splash_distance > 1 THEN 0
    ELSE IF is_hunkered THEN Trunc(THROW_DAMAGE, 2) ELSE THROW_DAMAGE

\* Mutant: the sum is not capped at 1.0.
calculate_kill_probability_uncapped(current_wetness, damage) ==
    current_wetness + damage

\* In percent: 100 stands for 1.0 and n < 100 for the double (double)n / 100.0.
calculate_kill_probability(current_wetness, damage) ==
    IF current_wetness + damage >= 100 THEN 100
    ELSE current_wetness + damage

\* ceil(1.0 + wetness * 0.01) for wetness >= 0 (WETNESS_AFFECTS_DISTANCE is true).
calculate_movement_cost(wetness) ==
    IF wetness % 100 = 0 THEN 1 + wetness \div 100 ELSE 2 + wetness \div 100

InBounds(x, y) == x >= 0 /\ x < board_width /\ y >= 0 /\ y < board_height

is_valid_movement_position(x, y, occupied_positions) ==
    /\ InBounds(x, y)
    /\ <<x, y>> \notin occupied_positions

TileAt(x, y) == tile_map[y][x]

provides_cover(x, y) == InBounds(x, y) /\ TileAt(x, y) = 1

(***************************************************************************)
(* AgentState and TacticalDecision                                         *)
(***************************************************************************)
is_alive(agent) == agent.wetness < 100
get_health(agent) == 100 - agent.wetness

Dist(x1, y1, x2, y2) == Abs(x1 - x2) + Abs(y1 - y2)
AgentDist(a, b) == Dist(a.x, a.y, b.x, b.y)

\* A default-constructed TacticalDecision with the given action_type and value.
Decision(type, value) ==
    [action_type |-> type, target_x |-> -1, target_y |-> -1,
     target_agent_id |-> -1, bomb_x |-> -1, bomb_y |-> -1,
     expected_value |-> value, kill_probability |-> 0, expected_damage |-> 0]

MoveTypes == {"MOVE", "MOVE_SHOOT", "MOVE_THROW"}
ThrowTypes == {"THROW", "MOVE_THROW"}
AttackTypes == {"SHOOT", "THROW", "MOVE_SHOOT", "MOVE_THROW"}

\* The tile a throw decision lands on.
LandingTile(d) ==
    IF d.action_type = "MOVE_THROW" THEN <<d.bomb_x, d.bomb_y>>
    ELSE <<d.target_x, d.target_y>>

\* Positions of the living agents of a list, the agent itself left out.
AlivePositionsExcept(agents, id) ==
    {<<agents[i].x, agents[i].y>> : i \in {j \in 1..Len(agents) :
        agents[j].agent_id # id /\ is_alive(agents[j])}}

AlivePositions(agents) ==
    {<<agents[i].x, agents[i].y>> : i \in {j \in 1..Len(agents) : is_alive(agents[j])}}

\* The first living enemy at the least distance from (x, y), 0 if none
\* (the loops "if (distance < min_distance) closest = &enemy").
ClosestAliveIdx(x, y, enemies) ==
    LET alive == {i \in 1..Len(enemies) : is_alive(enemies[i])}
        d(i) == Dist(x, y, enemies[i].x, enemies[i].y)
    IN IF alive = {} THEN 0
       ELSE CHOOSE i \in alive :
                /\ \A j \in alive : d(i) <= d(j)
                /\ \A j \in alive : j < i => d(j) > d(i)

(***************************************************************************)
(* SmartGameAI: attack and throw generators                                *)
(***************************************************************************)
\* The offsets of "for dx in -1..1: for dy in -1..1", in loop order.
Offsets3 == [k \in 1..9 |-> <<((k - 1) \div 3) - 1, ((k - 1) % 3) - 1>>]
\* The offsets of "for dx in -2..2: for dy in -2..2", in loop order.
Offsets5 == [k \in 1..25 |-> <<((k - 1) \div 5) - 2, ((k - 1) % 5) - 2>>]
\* The offsets of dx[] = {1,1,0,-1,-1,-1,0,1}, dy[] = {0,1,1,1,0,-1,-1,-1}.
Offsets8 == <<<<1, 0>>, <<1, 1>>, <<0, 1>>, <<-1, 1>>,
              <<-1, 0>>, <<-1, -1>>, <<0, -1>>, <<1, -1>>>>

\* The loop counter values 1..n, in order.
Indices(n) == [i \in 1..n |-> i]

\* The tile at an offset from the agent.
TileOf(agent, off) == <<agent.x + off[1], agent.y + off[2]>>

\* The type of the tile at offset k of Offsets3 from the target.
CoverTypeAt(target, k) == TileAt(target.x + Offsets3[k][1], target.y + Offsets3[k][2])

\* The tile at offset k = (dx, dy) from the target is a cover tile that lies
\* between the shooter and the target.
CoverBlocks(shooter, target, k, dx, dy) ==
    /\ ~(dx = 0 /\ dy = 0)
    /\ InBounds(target.x + dx, target.y + dy)
    /\ CoverTypeAt(target, k) \in {1, 2}
    /\ \/ dx = 1 /\ shooter.x < target.x
       \/ dx = -1 /\ shooter.x > target.x
       \/ dy = 1 /\ shooter.y < target.y
       \/ dy = -1 /\ shooter.y > target.y

\* The multiplier of the first blocking tile in loop order, in quarters:
\* 4 (1.0, none), 2 (0.5, light cover), 1 (0.25, heavy cover).
FirstCoverMultiplier(target, hits) ==
    IF hits = {} THEN 4
    ELSE IF CoverTypeAt(target, CHOOSE k \in hits : \A j \in hits : k <= j) = 1
         THEN 2 ELSE 1

calculate_cover_protection(shooter, target) ==
    FirstCoverMultiplier(target,
        {k \in 1..9 : CoverBlocks(shooter, target, k, Offsets3[k][1], Offsets3[k][2])})

\* The value of a shot that deals final_damage to enemy e.
ShootValue(e, final_damage) ==
    LET v0 == final_damage * 150
              + (IF e.wetness + final_damage >= 100 THEN 8000
                 ELSE (e.wetness + final_damage) * 80)
        v1 == IF e.wetness > 50 THEN (v0 * 3) \div 2 ELSE v0
    IN IF e.wetness > 80 THEN v1 * 2 ELSE v1

\* The damage of a shot at enemy e from the given distance.
ShootDamage(agent, data, e, distance) ==
    Trunc((IF distance > data.optimal_range
           THEN Trunc(data.soaking_power, 2)
           ELSE data.soaking_power) * calculate_cover_protection(agent, e), 4)

\* The candidate of one enemy: a SHOOT, or a decision of value 0 that is
\* never taken when the enemy is skipped.
ShootCandidate(data, e, distance, final_damage) ==
    IF is_alive(e) /\ distance <= data.optimal_range * 2 /\ final_damage > 0
    THEN [Decision("SHOOT", ShootValue(e, final_damage)) EXCEPT
                !.target_agent_id = e.agent_id,
                !.expected_damage = final_damage]
    ELSE Decision("HUNKER_DOWN", 0)

ShootAt(agent, data, e, distance) ==
    ShootCandidate(data, e, distance, ShootDamage(agent, data, e, distance))

find_best_shooting_target(agent, enemies) ==
    IF agent.cooldown > 0 \/ enemies = <<>> THEN Decision("HUNKER_DOWN", 0)
    ELSE BestStrict(Decision("HUNKER_DOWN", 0),
            [i \in 1..Len(enemies) |->
                ShootAt(agent, all_agents_data[agent.agent_id], enemies[i],
                        AgentDist(agent, enemies[i]))])

calculate_total_splash_damage_clean(enemies, bomb_x, bomb_y) ==
    30 * Cardinality({i \in 1..Len(enemies) :
            is_alive(enemies[i]) /\ Dist(bomb_x, bomb_y, enemies[i].x, enemies[i].y) <= 1})

count_enemies_in_splash_clean(enemies, bomb_x, bomb_y) ==
    Cardinality({i \in 1..Len(enemies) :
            is_alive(enemies[i]) /\ Dist(bomb_x, bomb_y, enemies[i].x, enemies[i].y) <= 1})

\* Candidate j of the loops "for enemy: for dx in -1..1: for dy in -1..1":
\* its target enemy and its landing tile.
BombTarget(enemies, j) == enemies[((j - 1) \div 9) + 1]
BombTile(enemies, j) ==
    <<BombTarget(enemies, j).x + Offsets3[((j - 1) % 9) + 1][1],
      BombTarget(enemies, j).y + Offsets3[((j - 1) % 9) + 1][2]>>

\* A living ally other than the thrower stands in the splash of (bx, by).
HitsFriendly(agent, allies, bx, by) ==
    \E a \in 1..Len(allies) :
        /\ allies[a].agent_id # agent.agent_id
        /\ is_alive(allies[a])
        /\ Dist(bx, by, allies[a].x, allies[a].y) <= 1

\* total_damage of one landing tile, 0 for a tile the loops skip.
BombingDamage(agent, enemies, allies, en, bx, by) ==
    IF /\ is_alive(en)
       /\ AgentDist(agent, en) <= THROW_DISTANCE_MAX
       /\ InBounds(bx, by)
       /\ Dist(agent.x, agent.y, bx, by) <= THROW_DISTANCE_MAX
       /\ ~HitsFriendly(agent, allies, bx, by)
    THEN calculate_total_splash_damage_clean(enemies, bx, by)
    ELSE 0

BombingDecision(damage, bx, by, enemies_hit) ==
    [Decision("THROW", damage * 20 + (IF enemies_hit > 1 THEN enemies_hit * 500 ELSE 0))
        EXCEPT !.target_x = bx, !.target_y = by, !.expected_damage = damage]

BombingAt(enemies, damage, tile) ==
    BombingDecision(damage, tile[1], tile[2],
                    count_enemies_in_splash_clean(enemies, tile[1], tile[2]))

\* Index of the first greatest element of a sequence of numbers.
FirstGreatest(s) ==
    CHOOSE j \in 1..Len(s) : /\ \A k \in 1..Len(s) : s[k] <= s[j]
                             /\ \A k \in 1..(j - 1) : s[k] < s[j]

\* "if (total_damage > best_damage)" over the landing tiles, best_damage = 0.
BestBombing(enemies, total_damage) ==
    IF \A j \in 1..Len(total_damage) : total_damage[j] <= 0
    THEN Decision("HUNKER_DOWN", 0)
    ELSE BombingAt(enemies, total_damage[FirstGreatest(total_damage)],
                   BombTile(enemies, FirstGreatest(total_damage)))

find_best_bombing_target_with_allies(agent, enemies, allies) ==
    IF agent.cooldown > 0 \/ agent.splash_bombs <= 0 THEN Decision("HUNKER_DOWN", 0)
    ELSE BestBombing(enemies,
            Vec([j \in 1..(9 * Len(enemies)) |->
                    BombingDamage(agent, enemies, allies, BombTarget(enemies, j),
                                  BombTile(enemies, j)[1], BombTile(enemies, j)[2])]))

(***************************************************************************)
(* SmartGameAI: compound, cover, sniper and movement generators            *)
(***************************************************************************)
\* movement_priorities: the tiles of the front indices, put in with
\* insert(begin()) and so in reverse loop order, then the tiles of the back
\* indices, put in with push_back.
PriorityTiles(agent, offsets, front, back) ==
    Vec([i \in 1..(Len(front) + Len(back)) |->
            IF i <= Len(front) THEN TileOf(agent, offsets[Reverse(front)[i]])
            ELSE TileOf(agent, offsets[back[i - Len(front)]])])

\* The tile at the offset is free and closer to the closest enemy (index c,
\* 0 if no enemy is alive) than the agent is.
CloserOffset(agent, enemies, occupied, c, off) ==
    /\ c # 0
    /\ ~(off[1] = 0 /\ off[2] = 0)
    /\ is_valid_movement_position(agent.x + off[1], agent.y + off[2], occupied)
    /\ Dist(agent.x + off[1], agent.y + off[2], enemies[c].x, enemies[c].y)
          < AgentDist(agent, enemies[c])

TileTypeOf(agent, off) == TileAt(agent.x + off[1], agent.y + off[2])

\* The tiles within two steps that close in on the closest enemy.
CompoundCloser(agent, enemies, occupied, c) ==
    PriorityTiles(agent, Offsets5,
        SelectSeq(Indices(25), LAMBDA k :
            CloserOffset(agent, enemies, occupied, c, Offsets5[k])
            /\ TileTypeOf(agent, Offsets5[k]) # 1),
        SelectSeq(Indices(25), LAMBDA k :
            CloserOffset(agent, enemies, occupied, c, Offsets5[k])
            /\ TileTypeOf(agent, Offsets5[k]) = 1))

FreeOffset(agent, occupied, off) ==
    is_valid_movement_position(agent.x + off[1], agent.y + off[2], occupied)

\* The fallback: the free tiles among the 8 neighbours.
CompoundNeighbours(agent, occupied) ==
    PriorityTiles(agent, Offsets8,
        SelectSeq(Indices(8), LAMBDA i :
            FreeOffset(agent, occupied, Offsets8[i]) /\ TileTypeOf(agent, Offsets8[i]) = 0),
        SelectSeq(Indices(8), LAMBDA i :
            FreeOffset(agent, occupied, Offsets8[i]) /\ TileTypeOf(agent, Offsets8[i]) # 0))

\* if (movement_priorities.empty()) the fallback is used.
FirstNonEmpty(first, second) == IF first # <<>> THEN first ELSE second

\* The tiles find_best_compound_action tries, in the order it tries them.
CompoundMovementPriorities(agent, enemies, occupied) ==
    FirstNonEmpty(CompoundCloser(agent, enemies, occupied,
                                 ClosestAliveIdx(agent.x, agent.y, enemies)),
                  CompoundNeighbours(agent, occupied))

MoveShootOk(data, e, nx, ny) ==
    /\ is_alive(e)
    /\ Dist(nx, ny, e.x, e.y) <= data.optimal_range
    /\ data.soaking_power > 0

MoveShootCandidate(agent, e, nx, ny, base_damage) ==
    [Decision("MOVE_SHOOT",
              base_damage * 250
              + (IF e.wetness + base_damage >= 100 THEN 15000
                 ELSE (e.wetness + base_damage) * 150)
              + (IF Dist(nx, ny, e.x, e.y) < AgentDist(agent, e) THEN 2000 ELSE 0))
        EXCEPT !.target_x = nx, !.target_y = ny,
               !.target_agent_id = e.agent_id,
               !.expected_damage = base_damage]

MoveShootCandidatesOf(agent, data, enemies, nx, ny, idx) ==
    [i \in 1..Len(idx) |->
        MoveShootCandidate(agent, enemies[idx[i]], nx, ny, data.soaking_power)]

\* The MOVE_SHOOT candidates of one tile, in enemy order.
CompoundShootCandidates(agent, enemies, nx, ny) ==
    MoveShootCandidatesOf(agent, all_agents_data[agent.agent_id], enemies, nx, ny,
        SelectSeq(Indices(Len(enemies)), LAMBDA i :
            MoveShootOk(all_agents_data[agent.agent_id], enemies[i], nx, ny)))

\* enemies_hit of a landing tile.
CompoundEnemiesHit(enemies, bx, by) ==
    Cardinality({i \in 1..Len(enemies) :
        is_alive(enemies[i]) /\ Dist(bx, by, enemies[i].x, enemies[i].y) <= 1})

\* self_damage of a landing tile for an agent that has moved to (nx, ny).
CompoundSelfDamage(agent, nx, ny, bx, by) ==
    IF Dist(bx, by, nx, ny) <= 1
    THEN (IF agent.wetness > 70 THEN 15 ELSE 30)
    ELSE 0

MoveThrowOk(en, nx, ny, bx, by, total_damage, self_damage) ==
    /\ is_alive(en)
    /\ InBounds(bx, by)
    /\ Dist(nx, ny, bx, by) <= THROW_DISTANCE_MAX
    /\ total_damage > 0
    /\ 10 * total_damage > 12 * self_damage

MoveThrowOkAt(agent, enemies, nx, ny, en, tile) ==
    MoveThrowOk(en, nx, ny, tile[1], tile[2],
                30 * CompoundEnemiesHit(enemies, tile[1], tile[2]),
                CompoundSelfDamage(agent, nx, ny, tile[1], tile[2]))

MoveThrowCandidate(agent, en, nx, ny, bx, by, enemies_hit, self_damage) ==
    [Decision("MOVE_THROW",
              30 * enemies_hit * 200 - self_damage * 100
              + (IF enemies_hit > 1 THEN enemies_hit * 4000 ELSE 0)
              + (IF Dist(nx, ny, en.x, en.y) < AgentDist(agent, en) THEN 1500 ELSE 0)
              + (IF self_damage = 0 THEN 800 ELSE 0))
        EXCEPT !.target_x = nx, !.target_y = ny,
               !.bomb_x = bx, !.bomb_y = by,
               !.expected_damage = 30 * enemies_hit]

MoveThrowAt(agent, enemies, nx, ny, en, tile) ==
    MoveThrowCandidate(agent, en, nx, ny, tile[1], tile[2],
                       CompoundEnemiesHit(enemies, tile[1], tile[2]),
                       CompoundSelfDamage(agent, nx, ny, tile[1], tile[2]))

MoveThrowCandidatesOf(agent, enemies, nx, ny, idx) ==
    [i \in 1..Len(idx) |->
        MoveThrowAt(agent, enemies, nx, ny, BombTarget(enemies, idx[i]),
                    BombTile(enemies, idx[i]))]

\* The MOVE_THROW candidates of one tile, in loop order (target enemy, dx, dy).
CompoundThrowCandidates(agent, enemies, nx, ny) ==
    IF ~(agent.splash_bombs > 0 /\ agent.wetness < 80) THEN <<>>
    ELSE MoveThrowCandidatesOf(agent, enemies, nx, ny,
            SelectSeq(Indices(9 * Len(enemies)), LAMBDA j :
                MoveThrowOkAt(agent, enemies, nx, ny, BombTarget(enemies, j),
                              BombTile(enemies, j))))

\* The candidates of the tiles, tile by tile.
CompoundCandidates(agent, enemies, tiles) ==
    Concat([t \in 1..Len(tiles) |->
                CompoundShootCandidates(agent, enemies, tiles[t][1], tiles[t][2])
                \o CompoundThrowCandidates(agent, enemies, tiles[t][1], tiles[t][2])])

find_best_compound_action(agent, enemies, allies) ==
    BestStrict(Decision("HUNKER_DOWN", 0),
        CompoundCandidates(agent, enemies,
            CompoundMovementPriorities(agent, enemies,
                AlivePositionsExcept(allies, agent.agent_id) \cup AlivePositions(enemies))))

\* The living enemies within distance 4 of the agent.
NearEnemies(agent, enemies) ==
    {i \in 1..Len(enemies) : is_alive(enemies[i]) /\ AgentDist(agent, enemies[i]) <= 4}

\* should_seek_cover, from the number of near enemies and of near bombers.
ShouldSeekCover(agent, enemies, allies, immediate_threats, near_bombers) ==
    \/ get_health(agent) <= 50 /\ immediate_threats >= 2
    \/ 20 * immediate_threats + 30 * near_bombers >= 60
    \/ Len(enemies) > Len(allies) + 1
    \/ get_health(agent) <= 70 /\ near_bombers > 0

\* An ally other than the agent, or an enemy, alive or not, stands on (x, y).
CoverOccupied(agent, enemies, allies, x, y) ==
    \/ \E a \in 1..Len(allies) :
          allies[a].agent_id # agent.agent_id /\ allies[a].x = x /\ allies[a].y = y
    \/ \E e \in 1..Len(enemies) : enemies[e].x = x /\ enemies[e].y = y

\* The offsets of Offsets5 that lead to a free cover tile.
CoverPositions(agent, enemies, allies) ==
    {k \in 1..25 :
        /\ provides_cover(agent.x + Offsets5[k][1], agent.y + Offsets5[k][2])
        /\ ~CoverOccupied(agent, enemies, allies,
                          agent.x + Offsets5[k][1], agent.y + Offsets5[k][2])}

CoverDistance(agent, k) ==
    Dist(agent.x, agent.y, agent.x + Offsets5[k][1], agent.y + Offsets5[k][2])

MoveToCover(agent, k) ==
    [Decision("MOVE", 3000) EXCEPT
        !.target_x = agent.x + Offsets5[k][1], !.target_y = agent.y + Offsets5[k][2]]

\* The first closest cover tile in loop order.
SeekCover(agent, cover_positions) ==
    IF cover_positions = {} THEN Decision("HUNKER_DOWN", 0)
    ELSE MoveToCover(agent, CHOOSE k \in cover_positions :
            /\ \A j \in cover_positions : CoverDistance(agent, k) <= CoverDistance(agent, j)
            /\ \A j \in cover_positions :
                  j < k => CoverDistance(agent, j) > CoverDistance(agent, k))

evaluate_cover_strategy(agent, enemies, allies) ==
    IF ~ShouldSeekCover(agent, enemies, allies,
                        Cardinality(NearEnemies(agent, enemies)),
                        Cardinality({i \in NearEnemies(agent, enemies) :
                                        enemies[i].splash_bombs > 0}))
    THEN Decision("HUNKER_DOWN", 0)
    ELSE SeekCover(agent, CoverPositions(agent, enemies, allies))

\* (int)((d / length) * 5) with length = sqrt(dx*dx + dy*dy) > 0: the integer
\* t of the sign of d with the greatest |t| such that |t| * length <= 5 * |d|.
RetreatOffset(d, dx, dy) ==
    LET len2 == dx * dx + dy * dy
        t == CHOOSE n \in 0..5 :
                /\ n * n * len2 <= 25 * d * d
                /\ (n + 1) * (n + 1) * len2 > 25 * d * d
    IN IF d < 0 THEN -t ELSE t

\* The retreat to (target_x, target_y) if no living ally stands there.
SniperRetreatTo(agent, allies, target_x, target_y) ==
    IF is_valid_movement_position(target_x, target_y,
                                  AlivePositionsExcept(allies, agent.agent_id))
    THEN [Decision("MOVE", 2500) EXCEPT !.target_x = target_x, !.target_y = target_y]
    ELSE Decision("HUNKER_DOWN", 0)

\* The retreat of 5 tiles along (dx, dy), away from the closest enemy, clamped
\* to the board.
SniperRetreat(agent, allies, closest, dx, dy) ==
    IF dx * dx + dy * dy > 0
    THEN SniperRetreatTo(agent, allies,
            Max(0, Min(board_width - 1, closest.x + RetreatOffset(dx, dx, dy))),
            Max(0, Min(board_height - 1, closest.y + RetreatOffset(dy, dx, dy))))
    ELSE Decision("HUNKER_DOWN", 0)

\* The retreat from the closest living enemy (index c, 0 if none).
SniperRetreatFrom(agent, enemies, allies, c) ==
    IF c # 0
    THEN SniperRetreat(agent, allies, enemies[c],
                       agent.x - enemies[c].x, agent.y - enemies[c].y)
    ELSE Decision("HUNKER_DOWN", 0)

evaluate_sniper_strategy(agent, enemies, allies) ==
    LET data == all_agents_data[agent.agent_id]
        Sum(f, n) == LET RECURSIVE S(_)
                         S(i) == IF i = 0 THEN 0 ELSE f[i] + S(i - 1)
                     IN S(n)
        my_team_health == Sum([i \in 1..Len(allies) |-> get_health(allies[i])], Len(allies))
        enemy_team_health == Sum([i \in 1..Len(enemies) |-> get_health(enemies[i])], Len(enemies))
        bombers_nearby == Cardinality({i \in 1..Len(enemies) :
                              enemies[i].splash_bombs > 0 /\ AgentDist(agent, enemies[i]) <= 6})
        team_advantage == my_team_health >= enemy_team_health /\ Len(allies) >= Len(enemies)
        low_personal_health == get_health(agent) <= 60
        should_keep_distance ==
            \/ ~team_advantage /\ (low_personal_health \/ bombers_nearby > 0)
            \/ bombers_nearby > 0 /\ get_health(agent) <= 80
    IN IF data.agent_class # "SNIPER" THEN Decision("HUNKER_DOWN", 0)
       ELSE IF should_keep_distance
            THEN SniperRetreatFrom(agent, enemies, allies,
                                   ClosestAliveIdx(agent.x, agent.y, enemies))
            ELSE Decision("HUNKER_DOWN", 0)

\* Candidate k of generate_random_moves: 1..8 the neighbours; with a living
\* enemy, 9..16 the neighbours again (step 1) and 17..24 the tiles two steps
\* away (step 2).
RandomMoveTile(agent, k) ==
    <<agent.x + Offsets8[((k - 1) % 8) + 1][1] * (IF k <= 16 THEN 1 ELSE 2),
      agent.y + Offsets8[((k - 1) % 8) + 1][2] * (IF k <= 16 THEN 1 ELSE 2)>>

RandomMoveValue(agent, data, nx, new_distance, old_distance) ==
    300
    + (IF new_distance < old_distance THEN 2000 ELSE 0)
    + (IF nx > agent.x THEN 1500 ELSE 0)
    + (IF new_distance <= data.optimal_range THEN 3000 ELSE 0)
    + (IF new_distance <= data.optimal_range + 2 THEN 1000 ELSE 0)
    - (IF new_distance > old_distance THEN 1000 ELSE 0)
    - (IF nx < agent.x THEN 700 ELSE 0)

\* The move to a tile, valued against the closest living enemy (index p, 0
\* if none).
RandomMove(agent, enemies, p, tile) ==
    [Decision("MOVE",
              IF p = 0 THEN 300
              ELSE RandomMoveValue(agent, all_agents_data[agent.agent_id], tile[1],
                                   Dist(tile[1], tile[2], enemies[p].x, enemies[p].y),
                                   AgentDist(agent, enemies[p])))
        EXCEPT !.target_x = tile[1], !.target_y = tile[2]]

RandomMovesOf(agent, enemies, p, kept) ==
    IF kept = <<>> THEN <<Decision("HUNKER_DOWN", 200)>>
    ELSE Vec([i \in 1..Len(kept) |-> RandomMove(agent, enemies, p, RandomMoveTile(agent, kept[i]))])

RandomMovesToward(agent, enemies, occupied, p) ==
    RandomMovesOf(agent, enemies, p,
        SelectSeq(Indices(IF p # 0 THEN 24 ELSE 8), LAMBDA k :
            /\ InBounds(RandomMoveTile(agent, k)[1], RandomMoveTile(agent, k)[2])
            /\ RandomMoveTile(agent, k) \notin occupied))

generate_random_moves(agent, enemies, allies) ==
    RandomMovesToward(agent, enemies,
        AlivePositionsExcept(allies, agent.agent_id) \cup AlivePositions(enemies),
        ClosestAliveIdx(agent.x, agent.y, enemies))

\* enemy_response_penalty of an option.
EnemyResponsePenalty(agent, o, enemies) ==
    LET future_x == IF o.action_type = "MOVE" THEN o.target_x ELSE agent.x
        future_y == IF o.action_type = "MOVE" THEN o.target_y ELSE agent.y
        alive == {i \in 1..Len(enemies) : is_alive(enemies[i])}
        d(i) == Dist(future_x, future_y, enemies[i].x, enemies[i].y)
    IN 100 * Cardinality({i \in alive : d(i) <= 4})
       + 200 * Cardinality({i \in alive : d(i) <= 2})

\* if (best_option.expected_value < 0) the option becomes HUNKER_DOWN, 50.
NonNegativeOption(best_option) ==
    IF best_option.expected_value < 0
    THEN [best_option EXCEPT !.action_type = "HUNKER_DOWN", !.expected_value = 50]
    ELSE best_option

\* total_value -= enemy_response_penalty * 0.3, ten times: 3 * penalty in all.
expectimax_evaluate(agent, options, enemies, allies) ==
    NonNegativeOption(BestStrict(Decision("", -1000),
        [i \in 1..Len(options) |->
            [options[i] EXCEPT
                !.expected_value = @ - 3 * EnemyResponsePenalty(agent, options[i], enemies)]]))

\* best_bomb.expected_value *= 5.0 under critical urgency.
UrgentBomb(agent, best_bomb) ==
    IF /\ get_health(agent) <= 40
       /\ agent.splash_bombs > 0
       /\ agent.cooldown = 0
       /\ best_bomb.action_type = "THROW"
    THEN [best_bomb EXCEPT !.expected_value = @ * 5]
    ELSE best_bomb

\* The bomb is preferred to the optimal option when the agent is low.
PreferBomb(agent, best_bomb, optimal) ==
    IF /\ agent.splash_bombs > 0
       /\ get_health(agent) <= 50
       /\ best_bomb.action_type = "THROW"
       /\ 2 * best_bomb.expected_value > optimal.expected_value
    THEN best_bomb
    ELSE optimal

OptimalWithBomb(agent, enemies, allies, best_bomb) ==
    PreferBomb(agent, best_bomb,
        expectimax_evaluate(agent,
            <<find_best_shooting_target(agent, enemies),
              best_bomb,
              find_best_compound_action(agent, enemies, allies),
              evaluate_cover_strategy(agent, enemies, allies),
              evaluate_sniper_strategy(agent, enemies, allies)>>
            \o generate_random_moves(agent, enemies, allies),
            enemies, allies))

make_optimal_decision(agent, enemies, allies) ==
    OptimalWithBomb(agent, enemies, allies,
        UrgentBomb(agent, find_best_bombing_target_with_allies(agent, enemies, allies)))

\* The SHOOT at the priority target, if the agent can shoot it.
FocusShoot(agent, data, priority_target, distance) ==
    IF agent.cooldown = 0 /\ distance <= data.optimal_range /\ data.soaking_power > 0
    THEN [Decision("SHOOT",
                   data.soaking_power * 200
                   + (IF priority_target.wetness + data.soaking_power >= 100 THEN 10000
                      ELSE (priority_target.wetness + data.soaking_power) * 100))
            EXCEPT !.target_agent_id = priority_target.agent_id,
                   !.expected_damage = data.soaking_power]
    ELSE Decision("HUNKER_DOWN", 0)

\* The THROW at the priority target replaces the decision if it is worth more.
FocusThrow(agent, priority_target, distance, focus_decision, bomb_damage, bomb_value) ==
    IF /\ agent.splash_bombs > 0
       /\ agent.wetness < 80
       /\ distance <= THROW_DISTANCE_MAX
       /\ bomb_value > focus_decision.expected_value
    THEN [focus_decision EXCEPT
            !.action_type = "THROW",
            !.target_x = priority_target.x, !.target_y = priority_target.y,
            !.expected_value = bomb_value, !.expected_damage = bomb_damage]
    ELSE focus_decision

evaluate_focus_fire(agent, priority_target) ==
    FocusThrow(agent, priority_target, AgentDist(agent, priority_target),
               FocusShoot(agent, all_agents_data[agent.agent_id], priority_target,
                          AgentDist(agent, priority_target)),
               30,
               30 * 150 + (IF priority_target.wetness + 30 >= 100 THEN 8000 ELSE 0))

\* An output line: format_compound_action keeps, per action type, only the
\* fields it prints; any other action_type prints HUNKER_DOWN.
Line(id, type, x, y, target, bx, by) ==
    [agent_id |-> id, action |-> type, x |-> x, y |-> y,
     target |-> target, bomb_x |-> bx, bomb_y |-> by]

HunkerLine(id) == Line(id, "HUNKER_DOWN", -1, -1, -1, -1, -1)

format_compound_action(agent_id, d) ==
    IF d.action_type = "SHOOT"
        THEN Line(agent_id, "SHOOT", -1, -1, d.target_agent_id, -1, -1)
    ELSE IF d.action_type = "MOVE"
        THEN Line(agent_id, "MOVE", d.target_x, d.target_y, -1, -1, -1)
    ELSE IF d.action_type = "THROW"
        THEN Line(agent_id, "THROW", d.target_x, d.target_y, -1, -1, -1)
    ELSE IF d.action_type = "MOVE_SHOOT"
        THEN Line(agent_id, "MOVE_SHOOT", d.target_x, d.target_y, d.target_agent_id, -1, -1)
    ELSE IF d.action_type = "MOVE_THROW"
        THEN Line(agent_id, "MOVE_THROW", d.target_x, d.target_y, -1, d.bomb_x, d.bomb_y)
    ELSE HunkerLine(agent_id)

(***************************************************************************)
(* SmitsimaxSearch                                                         *)
(***************************************************************************)
check_terminal(my_agents, enemy_agents, depth) ==
    \/ \A i \in 1..Len(my_agents) : ~is_alive(my_agents[i])
    \/ \A i \in 1..Len(enemy_agents) : ~is_alive(enemy_agents[i])
    \/ depth >= 2

\* The candidate actions of a living agent, in the order they are pushed.
ActionList(shoot, bomb, moves) ==
    (IF shoot.action_type = "SHOOT" THEN <<shoot>> ELSE <<>>)
    \o (IF bomb.action_type = "THROW" THEN <<bomb>> ELSE <<>>)
    \o SubSeq(moves, 1, Min(2, Len(moves)))
    \o <<Decision("HUNKER_DOWN", 50)>>

\* The candidate actions of one agent.
AgentActions(agent, enemies, all_allies) ==
    IF ~is_alive(agent) THEN <<Decision("HUNKER_DOWN", 0)>>
    ELSE ActionList(find_best_shooting_target(agent, enemies),
                    find_best_bombing_target_with_allies(agent, enemies, all_allies),
                    generate_random_moves(agent, enemies, all_allies))

\* The odometer step of generate_joint_actions: add 1 to the last index,
\* carrying toward the first (indices are 0-based, sizes[i] the radix of i).
RECURSIVE OdometerStep(_, _, _)
OdometerStep(indices, sizes, i) ==
    IF i = 0 THEN indices
    ELSE IF indices[i] + 1 >= sizes[i]
         THEN OdometerStep([indices EXCEPT ![i] = 0], sizes, i - 1)
         ELSE [indices EXCEPT ![i] = @ + 1]

RECURSIVE JointLoop(_, _, _)
JointLoop(agent_actions, indices, joint_actions) ==
    LET n == Len(agent_actions)
        sizes == [i \in 1..n |-> Len(agent_actions[i])]
        joint_action == Vec([i \in 1..n |-> agent_actions[i][indices[i] + 1]])
        pushed == Append(joint_actions, joint_action)
        next == OdometerStep(indices, sizes, n)
    IN IF Len(pushed) >= 16 THEN pushed
       ELSE IF next[1] < sizes[1] \/ \E i \in 2..n : next[i] > 0
            THEN JointLoop(agent_actions, next, pushed)
            ELSE pushed

generate_joint_actions(my_agents, enemies, all_allies) ==
    LET agent_actions == Vec([i \in 1..Len(my_agents) |->
                            AgentActions(my_agents[i], enemies, all_allies)])
    IN JointLoop(agent_actions, [i \in 1..Len(my_agents) |-> 0], <<>>)

apply_joint_action(agents, actions, enemies) ==
    [i \in 1..Len(agents) |->
        IF i > Len(actions) \/ ~is_alive(agents[i]) THEN agents[i]
        ELSE LET a == actions[i]
                 acted ==
                    IF a.action_type = "MOVE"
                        THEN [agents[i] EXCEPT !.x = a.target_x, !.y = a.target_y]
                    ELSE IF a.action_type = "SHOOT" /\ agents[i].cooldown = 0
                        THEN [agents[i] EXCEPT !.cooldown = 1]
                    ELSE IF a.action_type = "THROW" /\ agents[i].splash_bombs > 0
                        THEN [agents[i] EXCEPT !.splash_bombs = @ - 1, !.cooldown = 2]
                    ELSE agents[i]
             IN IF acted.cooldown > 0 THEN [acted EXCEPT !.cooldown = @ - 1] ELSE acted]

simulate_enemy_response_enhanced(enemies, my_agents) ==
    [i \in 1..Len(enemies) |->
        LET enemy == enemies[i]
            c == ClosestAliveIdx(enemy.x, enemy.y, my_agents)
        IN IF ~is_alive(enemy) \/ c = 0 THEN enemy
           ELSE IF enemy.x < my_agents[c].x THEN [enemy EXCEPT !.x = @ + 1]
           ELSE IF enemy.x > my_agents[c].x THEN [enemy EXCEPT !.x = @ - 1]
           ELSE IF enemy.y < my_agents[c].y THEN [enemy EXCEPT !.y = @ + 1]
           ELSE IF enemy.y > my_agents[c].y THEN [enemy EXCEPT !.y = @ - 1]
           ELSE enemy]

\* A child of the root: the joint action, the state it leads to, its visits.
SearchChild(joint_action, new_my_agents, enemies, visits) ==
    [joint_action |-> joint_action,
     my_agents |-> new_my_agents,
     enemy_agents |-> simulate_enemy_response_enhanced(enemies, new_my_agents),
     visits |-> visits]

\* expand() at the root: a child for each of the first 8 joint actions; the
\* first child is the one the iteration goes on to evaluate.
RootChildren(my_agents, enemies, joint_actions) ==
    Vec([c \in 1..Min(8, Len(joint_actions)) |->
            SearchChild(joint_actions[c],
                        apply_joint_action(my_agents, joint_actions[c], enemies),
                        enemies, IF c = 1 THEN 1 ELSE 0)])

\* The first root child without a visit gets one; none is left unchanged.
VisitFirstUnvisited(children, unvisited) ==
    IF unvisited = {} THEN children
    ELSE [children EXCEPT ![CHOOSE k \in unvisited : \A j \in unvisited : k <= j].visits = @ + 1]

\* One iteration of the loop of smitsimax_search, seen from the root: the
\* visit count of the root and, per root child, its joint action, its state
\* and its visit count.  stop_poll is the first iteration whose clock poll
\* finds the budget exceeded (max_iterations when it never does).
\* Once every root child has been visited the selected child is expanded and
\* the node evaluated lies at depth 2; its backpropagation stops below the
\* root's child (parent != root), so the counts kept here do not change.
\* (A root child is terminal only if the root is: neither apply_joint_action
\* nor simulate_enemy_response_enhanced changes a wetness.)
RECURSIVE SearchLoop(_, _, _, _, _, _, _)
SearchLoop(my_agents, enemies, max_iterations, stop_poll, iter, root_visits, children) ==
    IF iter >= max_iterations THEN children
    ELSE IF iter % 5 = 0 /\ iter >= stop_poll THEN children
    ELSE IF children = <<>> \/ check_terminal(my_agents, enemies, 0)
    THEN SearchLoop(my_agents, enemies, max_iterations, stop_poll,
                    iter + 1, root_visits + 1,
                    IF ~check_terminal(my_agents, enemies, 0) /\ root_visits > 0
                    THEN RootChildren(my_agents, enemies,
                            generate_joint_actions(my_agents, enemies, my_agents))
                    ELSE children)
    ELSE SearchLoop(my_agents, enemies, max_iterations, stop_poll,
                    iter + 1,
                    IF \E c \in 1..Len(children) : children[c].visits = 0
                    THEN root_visits + 1 ELSE root_visits,
                    VisitFirstUnvisited(children,
                        {c \in 1..Len(children) : children[c].visits = 0}))

\* The joint action of the first root child with the most visits; without
\* children, HUNKER_DOWN for every agent.
MostVisited(my_agents, children) ==
    IF children = <<>>
    THEN [i \in 1..Len(my_agents) |-> Decision("HUNKER_DOWN", 50)]
    ELSE children[CHOOSE c \in 1..Len(children) :
                    /\ \A j \in 1..Len(children) : children[j].visits <= children[c].visits
                    /\ \A j \in 1..(c - 1) : children[j].visits < children[c].visits
                 ].joint_action

smitsimax_search(my_agents, enemies, max_iterations, stop_poll) ==
    MostVisited(my_agents,
        SearchLoop(my_agents, enemies, max_iterations, stop_poll, 0, 0, <<>>))

(***************************************************************************)
(* main: one turn                                                          *)
(***************************************************************************)
INT_MAX == 2147483647

\* Index of the priority target in the enemy list, 0 for nullptr.
PriorityTarget(my_agents, enemy_agents) ==
    LET min_distance_to_enemy(e) ==
            IF my_agents = <<>> THEN INT_MAX
            ELSE LET ds == {AgentDist(my_agents[i], e) : i \in 1..Len(my_agents)}
                 IN CHOOSE d \in ds : \A d2 \in ds : d <= d2
        target_score(e) ==
            (IF e.splash_bombs > 0 THEN e.splash_bombs * 3000 ELSE 0)
            + (IF e.wetness > 50 THEN (e.wetness - 50) * 60 ELSE 0)
            + (10 - min_distance_to_enemy(e)) * 100
            + (IF e.cooldown <= 1 THEN 1500 ELSE 0)
        E == 1..Len(enemy_agents)
        s(i) == target_score(enemy_agents[i])
    IN IF \A i \in E : s(i) <= -1000 THEN 0
       ELSE CHOOSE i \in E : /\ \A j \in E : s(j) <= s(i)
                             /\ \A j \in E : j < i => s(j) < s(i)

\* Mutant: the search is used from turn 2 on.
use_smitsimax_FromTurn2(my_agents, enemy_agents, turn) ==
    Len(my_agents) >= 2 /\ Len(enemy_agents) >= 1 /\ turn >= 2

use_smitsimax(my_agents, enemy_agents, turn) ==
    Len(my_agents) >= 2 /\ Len(enemy_agents) >= 1 /\ turn >= 3

\* Mutant: the destination is reserved without looking it up in the blacklist.
ResolveCollision_Unchecked(agent, decision, my_agents, enemy_agents, blacklist) ==
    IF decision.action_type \notin MoveTypes THEN <<decision, blacklist>>
    ELSE <<decision, blacklist \cup {<<decision.target_x, decision.target_y>>}>>

\* The collision arbitration of one Move-class decision: <<decision, blacklist>>.
\* Mutant: the alternative is looked for around the agent's own tile.
ResolveCollision_AroundAgent(agent, decision, my_agents, enemy_agents, blacklist) ==
    LET target_pos == <<decision.target_x, decision.target_y>>
        dx == <<1, -1, 0, 0, 1, -1, 1, -1>>
        dy == <<0, 0, 1, -1, 1, 1, -1, -1>>
        alt(i) == <<agent.x + dx[i], agent.y + dy[i]>>
        occupied(p) ==
            \/ \E o \in 1..Len(my_agents) :
                  /\ my_agents[o].agent_id # agent.agent_id
                  /\ my_agents[o].x = p[1] /\ my_agents[o].y = p[2]
            \/ \E e \in 1..Len(enemy_agents) :
                  enemy_agents[e].x = p[1] /\ enemy_agents[e].y = p[2]
        good == {i \in 1..8 : /\ InBounds(alt(i)[1], alt(i)[2])
                              /\ alt(i) \notin blacklist
                              /\ ~occupied(alt(i))}
    IN IF decision.action_type \notin MoveTypes THEN <<decision, blacklist>>
       ELSE IF target_pos \notin blacklist THEN <<decision, blacklist \cup {target_pos}>>
       ELSE IF good = {}
            THEN <<[decision EXCEPT !.action_type = "HUNKER_DOWN"], blacklist>>
            ELSE LET i == CHOOSE k \in good : \A j \in good : k <= j
                 IN <<[decision EXCEPT !.target_x = alt(i)[1], !.target_y = alt(i)[2]],
                      blacklist \cup {alt(i)}>>

ResolveCollision(agent, decision, my_agents, enemy_agents, blacklist) ==
    LET target_pos == <<decision.target_x, decision.target_y>>
        dx == <<1, -1, 0, 0, 1, -1, 1, -1>>
        dy == <<0, 0, 1, -1, 1, 1, -1, -1>>
        alt(i) == <<decision.target_x + dx[i], decision.target_y + dy[i]>>
        occupied(p) ==
            \/ \E o \in 1..Len(my_agents) :
                  /\ my_agents[o].agent_id # agent.agent_id
                  /\ my_agents[o].x = p[1] /\ my_agents[o].y = p[2]
            \/ \E e \in 1..Len(enemy_agents) :
                  enemy_agents[e].x = p[1] /\ enemy_agents[e].y = p[2]
        good == {i \in 1..8 : /\ InBounds(alt(i)[1], alt(i)[2])
                              /\ alt(i) \notin blacklist
                              /\ ~occupied(alt(i))}
    IN IF decision.action_type \notin MoveTypes THEN <<decision, blacklist>>
       ELSE IF target_pos \notin blacklist THEN <<decision, blacklist \cup {target_pos}>>
       ELSE IF good = {}
            THEN <<[decision EXCEPT !.action_type = "HUNKER_DOWN"], blacklist>>
            ELSE LET i == CHOOSE k \in good : \A j \in good : k <= j
                 IN <<[decision EXCEPT !.target_x = alt(i)[1], !.target_y = alt(i)[2]],
                      blacklist \cup {alt(i)}>>

\* Mutant: the override also takes a focus decision worth exactly 80%.
FocusFireOverride_AtLeast(agent, decision, enemy_agents, priority_target) ==
    IF priority_target # 0 /\ agent.cooldown = 0
    THEN LET focus_fire == evaluate_focus_fire(agent, enemy_agents[priority_target])
         IN IF 10 * focus_fire.expected_value >= 8 * decision.expected_value
            THEN focus_fire ELSE decision
    ELSE decision

\* The focus-fire override of one agent's decision.
FocusFireOverride(agent, decision, enemy_agents, priority_target) ==
    IF priority_target # 0 /\ agent.cooldown = 0
    THEN LET focus_fire == evaluate_focus_fire(agent, enemy_agents[priority_target])
         IN IF 10 * focus_fire.expected_value > 8 * decision.expected_value
            THEN focus_fire ELSE decision
    ELSE decision

\* The decision an agent enters the arbitration with.
ProposedDecision(i, my_agents, enemy_agents, searched, joint_actions) ==
    IF searched /\ i <= Len(joint_actions) THEN joint_actions[i]
    ELSE make_optimal_decision(my_agents[i], enemy_agents, my_agents)

\* The decisions and the blacklist after an agent's finalized decision.
Finalized(i, agent, acc, resolved, enemy_agents, priority_target) ==
    [decisions |-> [acc.decisions EXCEPT ![i] =
                        FocusFireOverride(agent, resolved[1], enemy_agents, priority_target)],
     blacklist |-> resolved[2]]

\* The body of the per-agent loop for agent i.
AgentStep(i, my_agents, enemy_agents, searched, joint_actions, acc) ==
    IF ~is_alive(my_agents[i])
    THEN [acc EXCEPT !.decisions[i] = Decision("HUNKER_DOWN", 0)]
    ELSE Finalized(i, my_agents[i], acc,
            ResolveCollision(my_agents[i],
                ProposedDecision(i, my_agents, enemy_agents, searched, joint_actions),
                my_agents, enemy_agents, acc.blacklist),
            enemy_agents, PriorityTarget(my_agents, enemy_agents))

\* The per-agent loop of the turn, from agent i on: [decisions, blacklist].
RECURSIVE DecisionLoop(_, _, _, _, _, _)
DecisionLoop(i, my_agents, enemy_agents, searched, joint_actions, acc) ==
    IF i > Len(my_agents) THEN acc
    ELSE DecisionLoop(i + 1, my_agents, enemy_agents, searched, joint_actions,
                      AgentStep(i, my_agents, enemy_agents, searched, joint_actions, acc))

\* The decisions of a turn (one per listed controlled agent, in list order)
\* and the reserved tiles.
TurnDecisions(my_agents, enemy_agents, turn, stop_poll) ==
    DecisionLoop(1, my_agents, enemy_agents,
                 use_smitsimax(my_agents, enemy_agents, turn),
                 IF use_smitsimax(my_agents, enemy_agents, turn)
                 THEN smitsimax_search(my_agents, enemy_agents, 20, stop_poll)
                 ELSE <<>>,
                 [decisions |-> [i \in 1..Len(my_agents) |-> Decision("", 0)],
                  blacklist |-> {}])

\* The output loop of a turn.
OutputLines(my_agents, decisions, count) ==
    LET alive_idx == SelectSeq([i \in 1..Len(my_agents) |-> i], LAMBDA i : is_alive(my_agents[i]))
        fallback_agent_id == IF alive_idx = <<>> THEN my_agent_ids[1]
                             ELSE my_agents[alive_idx[1]].agent_id
    IN [line \in 1..count |->
            IF line <= Len(alive_idx)
            THEN format_compound_action(my_agents[alive_idx[line]].agent_id,
                                        decisions[alive_idx[line]])
            ELSE HunkerLine(fallback_agent_id)]

\* Mutant: the catch block prints a line per agent listed this turn.
CatchLines_ListedOnly ==
    [i \in 1..Len(current_my_agents) |-> HunkerLine(current_my_agents[i].agent_id)]

\* The lines the catch block prints.
CatchLines == [i \in 1..Len(my_agent_ids) |-> HunkerLine(my_agent_ids[i])]

(***************************************************************************)
(* Bounds of the model                                                     *)
(***************************************************************************)
BoardW == 4          \* board width read at match init
BoardH == 1          \* board height read at match init
MaxTurn == 3         \* turns played before the input ends
MaxAgents == 4       \* agents listed in one turn's input
MaxCooldown == 1     \* greatest cooldown a listed controlled agent has
MaxBombs == 1        \* greatest bomb count a listed agent has

(***************************************************************************)
(* Match init                                                              *)
(***************************************************************************)
\* reference_integration.cpp: enum AgentClass, the value of each enumerator.
AgentClass == [GUNNER |-> 0, SNIPER |-> 1, BOMBER |-> 2, ASSAULT |-> 3, BERSERKER |-> 4]

\* reference_integration.cpp: determine_agent_class.
reference_determine_agent_class(optimal_range, soaking_power, splash_bombs) ==
    IF optimal_range = 6 /\ soaking_power = 24 THEN AgentClass.SNIPER
    ELSE IF optimal_range = 2 /\ splash_bombs >= 3 THEN AgentClass.BOMBER
    ELSE IF optimal_range = 2 /\ soaking_power = 32 THEN AgentClass.BERSERKER
    ELSE IF optimal_range = 4 /\ splash_bombs >= 2 THEN AgentClass.ASSAULT
    ELSE AgentClass.GUNNER

\* Mutant: the Berserker rule is tried before the Bomber rule.
determine_agent_class_BerserkerFirst(optimal_range, soaking_power, splash_bombs) ==
    IF optimal_range = 6 /\ soaking_power = 24 THEN "SNIPER"
    ELSE IF optimal_range = 2 /\ soaking_power = 32 THEN "BERSERKER"
    ELSE IF optimal_range = 2 /\ splash_bombs >= 3 THEN "BOMBER"
    ELSE IF optimal_range = 4 /\ splash_bombs >= 2 THEN "ASSAULT"
    ELSE "GUNNER"

\* part_000: determine_agent_class, the GameAgentClass enumerator returned.
determine_agent_class(optimal_range, soaking_power, splash_bombs) ==
    IF optimal_range = 6 /\ soaking_power = 24 THEN "SNIPER"
    ELSE IF optimal_range = 2 /\ splash_bombs >= 3 THEN "BOMBER"
    ELSE IF optimal_range = 2 /\ soaking_power = 32 THEN "BERSERKER"
    ELSE IF optimal_range = 4 /\ splash_bombs >= 2 THEN "ASSAULT"
    ELSE "GUNNER"

AgentData(id, player, cd, range, power, bombs) ==
    [agent_id |-> id, player |-> player, shoot_cooldown |-> cd,
     optimal_range |-> range, soaking_power |-> power, splash_bombs |-> bombs,
     agent_class |-> determine_agent_class(range, power, bombs)]

\* The agent profiles of the match: player 0 controls agents 1 and 2.
Profiles ==
    <<AgentData(1, 0, 5, 6, 24, 0),
      AgentData(2, 0, 2, 2, 8, 3),
      AgentData(3, 1, 1, 4, 16, 1),
      AgentData(4, 1, 2, 4, 16, 2)>>

my_id == 0

\* The tile rows of the match: open ground with one light cover tile.
TileRows == [y \in 0..(BoardH - 1) |-> [x \in 0..(BoardW - 1) |->
                IF x = 1 /\ y = 0 THEN 1 ELSE 0]]

(***************************************************************************)
(* The turn inputs the model reads                                         *)
(***************************************************************************)
Tiles == (0..(BoardW - 1)) \X (0..(BoardH - 1))
MyWetness == {0, 60}
EnemyWetness == {0, 90}

AgentState(id, pos, cd, bombs, wet) ==
    [agent_id |-> id, x |-> pos[1], y |-> pos[2], cooldown |-> cd,
     splash_bombs |-> bombs, wetness |-> wet]

\* The states the feed can report for one agent on one tile: alive (a
\* controlled agent with any cooldown and bomb count, an opposing agent ready
\* to shoot and carrying bombs), or eliminated (wetness 100).
AgentStatesAt(id, pos, wets) ==
    {AgentState(id, pos, cd, b, w) :
        cd \in (IF Profiles[id].player = my_id THEN 0..MaxCooldown ELSE {0}),
        b \in (IF Profiles[id].player = my_id
                THEN 0..Min(MaxBombs, Profiles[id].splash_bombs)
                ELSE {Min(MaxBombs, Profiles[id].splash_bombs)}),
        w \in wets}
    \cup {AgentState(id, pos, 0, 0, 100)}

SideWetness(id) == IF Profiles[id].player = my_id THEN MyWetness ELSE EnemyWetness

\* The lists of agent ids a turn can report: controlled agents, then
\* opposing agents, each in id order.
IdLists == {<<>>, <<1>>, <<2>>, <<1, 2>>, <<3>>, <<1, 3>>, <<2, 3>>, <<1, 2, 3>>,
            <<3, 4>>, <<1, 3, 4>>, <<2, 3, 4>>, <<1, 2, 3, 4>>}

RECURSIVE AgentLists(_, _)
\* Every list of agent states for the ids, on pairwise distinct tiles not in used.
AgentLists(ids, used) ==
    IF ids = <<>> THEN {<<>>}
    ELSE UNION {UNION {{<<a>> \o rest : rest \in AgentLists(Tail(ids), used \cup {pos})} :
                        a \in AgentStatesAt(Head(ids), pos, SideWetness(Head(ids)))} :
                pos \in Tiles \ used}

IsMine(id) == \E i \in 1..Len(my_agent_ids) : my_agent_ids[i] = id

(***************************************************************************)
(* The turn loop of main                                                   *)
(***************************************************************************)
NoCall == [fn |-> "none"]
NoRet == [done |-> FALSE, value |-> 0]

\* No search is running and no rollout is simulated.
NoSearch ==
    /\ root = [visits |-> 0, children |-> <<>>]
    /\ iteration = 0
    /\ expired = FALSE
    /\ overrun = 0
    /\ result = <<>>
NoSim == [depth |-> 0]

Init ==
    /\ all_agents_data = [id \in 1..Len(Profiles) |-> Profiles[id]]
    /\ my_agent_ids = SelectSeq([i \in 1..Len(Profiles) |-> i],
                                LAMBDA id : Profiles[id].player = my_id)
    /\ board_width = BoardW
    /\ board_height = BoardH
    /\ tile_map = TileRows
    /\ turn_number = 0
    /\ pc = "read"
    /\ current_my_agents = <<>>
    /\ current_enemy_agents = <<>>
    /\ my_agent_count = 0
    /\ agent_decisions = <<>>
    /\ movement_blacklist = {}
    /\ out = <<>>
    /\ raised = FALSE
    /\ prev_raised = FALSE
    /\ call = NoCall
    /\ ret = NoRet
    /\ smitsimax_used = FALSE
    /\ NoSearch
    /\ sim = NoSim

static == <<all_agents_data, my_agent_ids, board_width, board_height, tile_map, call, ret,
            root, iteration, expired, overrun, result, sim>>

\* while (true) { turn_number++; ... read the agents and my_agent_count
ReadTurn ==
    /\ pc = "read"
    /\ turn_number < MaxTurn
    /\ \E ids \in {l \in IdLists : Len(l) <= MaxAgents} :
       \E agents \in AgentLists(ids, {}) :
          /\ current_my_agents' = SelectSeq(agents, LAMBDA a : IsMine(a.agent_id))
          /\ current_enemy_agents' = SelectSeq(agents, LAMBDA a : ~IsMine(a.agent_id))
          /\ my_agent_count' = Len(SelectSeq(agents, LAMBDA a : IsMine(a.agent_id)))
    /\ turn_number' = turn_number + 1
    /\ pc' = "decide"
    /\ agent_decisions' = <<>>
    /\ movement_blacklist' = {}
    /\ out' = <<>>
    /\ UNCHANGED <<raised, prev_raised, smitsimax_used>>
    /\ UNCHANGED static

\* if (cin.fail() || cin.eof()) break;
InputEnds ==
    /\ pc = "read"
    /\ turn_number' = turn_number + 1
    /\ pc' = "done"
    /\ UNCHANGED <<current_my_agents, current_enemy_agents, my_agent_count,
                   agent_decisions, movement_blacklist, out, raised, prev_raised, smitsimax_used>>
    /\ UNCHANGED static

\* The iterations at which the search's clock poll can first find the time
\* limit exceeded.  The search polls at iterations 0, 5, 10 and 15; 20 stands
\* for never.  A stop at 5, 10 or 15 returns what 20 returns: by iteration 5
\* the first root child has a visit, no child ever gets a second one, and the
\* first child with the most visits is returned.
StopPolls ==
    IF use_smitsimax(current_my_agents, current_enemy_agents, turn_number)
    THEN {0, 20} ELSE {20}

\* The decisions and the reserved tiles r of the turn are kept and the
\* output loop prints its lines.
TurnOutcome(r) ==
    /\ agent_decisions' = r.decisions
    /\ movement_blacklist' = r.blacklist
    /\ out' = OutputLines(current_my_agents, r.decisions, my_agent_count)

\* The body of the try block after the input is read: priority target,
\* search or individual decisions, arbitration, focus fire, output loop.
Decide ==
    /\ pc = "decide"
    /\ \E stop_poll \in StopPolls :
        TurnOutcome(TurnDecisions(current_my_agents, current_enemy_agents,
                                  turn_number, stop_poll))
    /\ smitsimax_used' = use_smitsimax(current_my_agents, current_enemy_agents, turn_number)
    /\ raised' = FALSE
    /\ prev_raised' = raised
    /\ pc' = "flush"
    /\ UNCHANGED <<turn_number, current_my_agents, current_enemy_agents, my_agent_count>>
    /\ UNCHANGED static

\* An exception (std::bad_alloc of a vector, map or string, or the failure of
\* the std::random_device the search constructs) leaves the try block while
\* the decisions are computed, before the output loop has printed a line:
\* catch (const exception& e) prints a line per id of my_agent_ids.
DecideRaise ==
    /\ pc = "decide"
    /\ agent_decisions' = <<>>
    /\ movement_blacklist' = {}
    /\ out' = CatchLines
    /\ smitsimax_used' = FALSE
    /\ raised' = TRUE
    /\ prev_raised' = raised
    /\ pc' = "flush"
    /\ UNCHANGED <<turn_number, current_my_agents, current_enemy_agents, my_agent_count>>
    /\ UNCHANGED static

\* cout.flush(); the locals of the iteration go out of scope.
EndTurn ==
    /\ pc = "flush"
    /\ pc' = "read"
    /\ current_my_agents' = <<>>
    /\ current_enemy_agents' = <<>>
    /\ my_agent_count' = 0
    /\ agent_decisions' = <<>>
    /\ movement_blacklist' = {}
    /\ out' = <<>>
    /\ prev_raised' = FALSE
    /\ smitsimax_used' = FALSE
    /\ UNCHANGED raised
    /\ UNCHANGED turn_number
    /\ UNCHANGED static

Next == ReadTurn \/ InputEnds \/ Decide \/ DecideRaise \/ EndTurn

Spec == Init /\ [][Next]_vars


(***************************************************************************)
(* The mechanics functions called on their own                             *)
(***************************************************************************)
MaxPower == 32       \* greatest soaking_power passed
MaxRange == 7        \* greatest optimal_range passed
MaxDistance == 8     \* greatest distance or splash distance passed
MaxWetness == 100    \* greatest current_wetness passed
MaxDamage == 120     \* greatest damage passed

ShootingCalls ==
    {[fn |-> "calculate_exact_shooting_damage", soaking_power |-> p,
      optimal_range |-> r, distance |-> d, splash_distance |-> 0, is_hunkered |-> FALSE] :
        p \in 0..MaxPower, r \in 0..MaxRange, d \in 0..MaxDistance}

BombCalls ==
    {[fn |-> "calculate_exact_bomb_damage", soaking_power |-> 0,
      optimal_range |-> 0, distance |-> 0, splash_distance |-> sd, is_hunkered |-> h] :
        sd \in 0..MaxDistance, h \in BOOLEAN}

KillCalls ==
    {[fn |-> "calculate_kill_probability", current_wetness |-> w, damage |-> d] :
        w \in 0..MaxWetness, d \in 0..MaxDamage}

MaxClassBombs == 4   \* greatest splash_bombs of a profile passed

ClassCalls ==
    {[fn |-> "determine_agent_class", optimal_range |-> r, soaking_power |-> p,
      splash_bombs |-> b] :
        r \in 0..MaxRange, p \in 0..MaxPower, b \in 0..MaxClassBombs}

InitPure ==
    /\ all_agents_data = [id \in 1..Len(Profiles) |-> Profiles[id]]
    /\ my_agent_ids = SelectSeq([i \in 1..Len(Profiles) |-> i],
                                LAMBDA id : Profiles[id].player = my_id)
    /\ board_width = BoardW
    /\ board_height = BoardH
    /\ tile_map = TileRows
    /\ turn_number = 0
    /\ pc = "call"
    /\ current_my_agents = <<>>
    /\ current_enemy_agents = <<>>
    /\ my_agent_count = 0
    /\ agent_decisions = <<>>
    /\ movement_blacklist = {}
    /\ out = <<>>
    /\ raised = FALSE
    /\ prev_raised = FALSE
    /\ call \in ShootingCalls \cup BombCalls \cup KillCalls \cup ClassCalls
    /\ ret = NoRet
    /\ smitsimax_used = FALSE
    /\ NoSearch
    /\ sim = NoSim

CallShootingDamage ==
    /\ pc = "call"
    /\ call.fn = "calculate_exact_shooting_damage"
    /\ ret' = [done |-> TRUE,
               value |-> calculate_exact_shooting_damage(call.soaking_power,
                                                         call.optimal_range, call.distance)]
    /\ pc' = "returned"
    /\ UNCHANGED <<all_agents_data, my_agent_ids, board_width, board_height, tile_map,
                   turn_number, current_my_agents, current_enemy_agents, my_agent_count,
                   agent_decisions, movement_blacklist, out, raised, prev_raised, call,
                   smitsimax_used, root, iteration, expired, overrun, result, sim>>

CallBombDamage ==
    /\ pc = "call"
    /\ call.fn = "calculate_exact_bomb_damage"
    /\ ret' = [done |-> TRUE,
               value |-> calculate_exact_bomb_damage(call.splash_distance, call.is_hunkered)]
    /\ pc' = "returned"
    /\ UNCHANGED <<all_agents_data, my_agent_ids, board_width, board_height, tile_map,
                   turn_number, current_my_agents, current_enemy_agents, my_agent_count,
                   agent_decisions, movement_blacklist, out, raised, prev_raised, call,
                   smitsimax_used, root, iteration, expired, overrun, result, sim>>

CallKillProbability ==
    /\ pc = "call"
    /\ call.fn = "calculate_kill_probability"
    /\ ret' = [done |-> TRUE,
               value |-> calculate_kill_probability(call.current_wetness, call.damage)]
    /\ pc' = "returned"
    /\ UNCHANGED <<all_agents_data, my_agent_ids, board_width, board_height, tile_map,
                   turn_number, current_my_agents, current_enemy_agents, my_agent_count,
                   agent_decisions, movement_blacklist, out, raised, prev_raised, call,
                   smitsimax_used, root, iteration, expired, overrun, result, sim>>

\* Both definitions of determine_agent_class are applied to the profile:
\* the value is <<part_000's enumerator, reference_integration's value>>.
CallDetermineAgentClass ==
    /\ pc = "call"
    /\ call.fn = "determine_agent_class"
    /\ ret' = [done |-> TRUE,
               value |-> <<determine_agent_class(call.optimal_range, call.soaking_power,
                                                 call.splash_bombs),
                           reference_determine_agent_class(call.optimal_range,
                                call.soaking_power, call.splash_bombs)>>]
    /\ pc' = "returned"
    /\ UNCHANGED <<all_agents_data, my_agent_ids, board_width, board_height, tile_map,
                   turn_number, current_my_agents, current_enemy_agents, my_agent_count,
                   agent_decisions, movement_blacklist, out, raised, prev_raised, call,
                   smitsimax_used, root, iteration, expired, overrun, result, sim>>

NextPure ==
    CallShootingDamage \/ CallBombDamage \/ CallKillProbability \/ CallDetermineAgentClass

SpecPure == InitPure /\ [][NextPure]_vars

(***************************************************************************)
(* calculate_cover_protection called on its own                            *)
(***************************************************************************)
CoverW == 3          \* board width of the cover calls
CoverH == 3          \* board height of the cover calls

CoverTiles == (0..(CoverW - 1)) \X (0..(CoverH - 1))

\* The tile maps of the cover calls: open ground with at most one light
\* cover tile (1) and at most one heavy cover tile (2).
CoverBoards ==
    {[y \in 0..(CoverH - 1) |-> [x \in 0..(CoverW - 1) |->
            IF <<x, y>> = light THEN 1 ELSE IF <<x, y>> = heavy THEN 2 ELSE 0]] :
        light \in CoverTiles \cup {<<-1, -1>>}, heavy \in CoverTiles \cup {<<-1, -1>>}}

\* A shooter and a target on two distinct tiles.
CoverCalls ==
    {[fn |-> "calculate_cover_protection",
      shooter |-> [x |-> st[1][1], y |-> st[1][2]],
      target |-> [x |-> st[2][1], y |-> st[2][2]]] :
        st \in {p \in CoverTiles \X CoverTiles : p[1] # p[2]}}

InitCover ==
    /\ all_agents_data = [id \in 1..Len(Profiles) |-> Profiles[id]]
    /\ my_agent_ids = SelectSeq([i \in 1..Len(Profiles) |-> i],
                                LAMBDA id : Profiles[id].player = my_id)
    /\ board_width = CoverW
    /\ board_height = CoverH
    /\ tile_map \in CoverBoards
    /\ turn_number = 0
    /\ pc = "call"
    /\ current_my_agents = <<>>
    /\ current_enemy_agents = <<>>
    /\ my_agent_count = 0
    /\ agent_decisions = <<>>
    /\ movement_blacklist = {}
    /\ out = <<>>
    /\ raised = FALSE
    /\ prev_raised = FALSE
    /\ call \in {c \in CoverCalls : /\ tile_map[c.shooter.y][c.shooter.x] = 0
                                    /\ tile_map[c.target.y][c.target.x] = 0}
    /\ ret = NoRet
    /\ smitsimax_used = FALSE
    /\ NoSearch
    /\ sim = NoSim

CallCoverProtection ==
    /\ pc = "call"
    /\ call.fn = "calculate_cover_protection"
    /\ ret' = [done |-> TRUE, value |-> calculate_cover_protection(call.shooter, call.target)]
    /\ pc' = "returned"
    /\ UNCHANGED <<all_agents_data, my_agent_ids, board_width, board_height, tile_map,
                   turn_number, current_my_agents, current_enemy_agents, my_agent_count,
                   agent_decisions, movement_blacklist, out, raised, prev_raised, call,
                   smitsimax_used, root, iteration, expired, overrun, result, sim>>

NextCover == CallCoverProtection

SpecCover == InitCover /\ [][NextCover]_vars

(***************************************************************************)
(* smitsimax_search, one loop iteration at a time                          *)
(***************************************************************************)
MaxIterations == 20     \* max_iterations, as main passes it
MaxSearchAgents == 3    \* agents listed in a turn the search is followed in

\* SmitsimaxNode, as its constructor leaves it.
SmitsimaxNode(my_agents, enemy_agents, depth, joint_action) ==
    [my_agents |-> my_agents, enemy_agents |-> enemy_agents, depth |-> depth,
     joint_action |-> joint_action, visits |-> 0, total_reward |-> 0,
     is_terminal |-> FALSE, children |-> <<>>]

AliveOf(agents) == {i \in 1..Len(agents) : is_alive(agents[i])}

RECURSIVE SumOver(_, _)
SumOver(S, f) ==
    IF S = {} THEN 0
    ELSE LET i == CHOOSE j \in S : TRUE IN f[i] + SumOver(S \ {i}, f)

\* The positional term of evaluate_state for one living agent.
PositionalValue(my_agent, enemy_agents) ==
    LET c == ClosestAliveIdx(my_agent.x, my_agent.y, enemy_agents)
        min_distance == IF c = 0 THEN INT_MAX ELSE AgentDist(my_agent, enemy_agents[c])
    IN (IF min_distance <= 4 THEN 200 ELSE 0) + (IF min_distance <= 2 THEN 100 ELSE 0)

StateValue(my_agents, enemy_agents, is_terminal, my_alive, enemy_alive, my_health, enemy_health) ==
    IF is_terminal
    THEN IF Cardinality(my_alive) > 0 /\ enemy_alive = {} THEN 10000
         ELSE IF my_alive = {} /\ Cardinality(enemy_alive) > 0 THEN -10000
         ELSE (my_health - enemy_health) * 10
              + (Cardinality(my_alive) - Cardinality(enemy_alive)) * 1000
    ELSE (my_health - enemy_health) * 5
         + (Cardinality(my_alive) - Cardinality(enemy_alive)) * 500
         + (SumOver(my_alive, [i \in my_alive |-> my_agents[i].splash_bombs])
            - SumOver(enemy_alive, [i \in enemy_alive |-> enemy_agents[i].splash_bombs])) * 300
         + SumOver(my_alive, [i \in my_alive |-> PositionalValue(my_agents[i], enemy_agents)])

\* evaluate_state reads the is_terminal field as check_terminal last left it.
evaluate_state(my_agents, enemy_agents, is_terminal) ==
    StateValue(my_agents, enemy_agents, is_terminal,
               AliveOf(my_agents), AliveOf(enemy_agents),
               SumOver(AliveOf(my_agents),
                       [i \in AliveOf(my_agents) |-> get_health(my_agents[i])]),
               SumOver(AliveOf(enemy_agents),
                       [i \in AliveOf(enemy_agents) |-> get_health(enemy_agents[i])]))

\* a->calculate_ucb() < b->calculate_ucb() for two children of one parent.
\* An unvisited child has the value infinity.  Two visited children with the
\* same visit count have the same exploration term and differ, if at all, by
\* their integer total_reward.  Children with different visit counts exist
\* only under a parent with one visit, where log(parent->visits) is 0 and the
\* values are total_reward / visits.
UcbLess(a, b) ==
    IF a.visits = 0 THEN FALSE
    ELSE IF b.visits = 0 THEN TRUE
    ELSE a.total_reward * b.visits < b.total_reward * a.visits

\* max_element: the first child no other child is greater than.
BestUcbChild(children) ==
    CHOOSE k \in 1..Len(children) :
        /\ \A j \in 1..Len(children) : ~UcbLess(children[k], children[j])
        /\ \A j \in 1..(k - 1) : UcbLess(children[j], children[k])

\* The child made for one joint action of the node expanded.
ChildOf(my_agents, enemy_agents, depth, joint_action, new_my_agents) ==
    SmitsimaxNode(new_my_agents,
                  simulate_enemy_response_enhanced(enemy_agents, new_my_agents),
                  depth + 1, joint_action)

\* The children pushed by the expansion: one per joint action, 8 at most.
ExpandedChildren(my_agents, enemy_agents, depth, joint_actions) ==
    Vec([c \in 1..Min(8, Len(joint_actions)) |->
            ChildOf(my_agents, enemy_agents, depth, joint_actions[c],
                    apply_joint_action(my_agents, joint_actions[c], enemy_agents))])

\* backprop->visits++; backprop->total_reward += value.
Backprop(node, value) ==
    [node EXCEPT !.visits = @ + 1, !.total_reward = @ + value]

\* What an iteration leaves of a node it passed through: the node, the value
\* it evaluated and the depth of the node evaluated.
Passed(node, value, depth) == [node |-> node, value |-> value, depth |-> depth]

\* The node was expanded and its first child evaluated and given its visit.
ExpandedAt(node, children, value) ==
    Passed([node EXCEPT !.is_terminal = FALSE,
                        !.children = [children EXCEPT ![1] = Backprop(children[1], value)]],
           value, node.depth + 1)

\* The node itself was evaluated and given its visit.
EvaluatedAt(node, terminal, value) ==
    Passed(Backprop([node EXCEPT !.is_terminal = terminal], value), value, node.depth)

\* The iteration stops its descent at this node.
StopAt(node, terminal, children) ==
    IF ~terminal /\ node.visits > 0 /\ children # <<>>
    THEN ExpandedAt(node, children,
                    evaluate_state(children[1].my_agents, children[1].enemy_agents, FALSE))
    ELSE EvaluatedAt(node, terminal,
                     evaluate_state(node.my_agents, node.enemy_agents, terminal))

\* The iteration went on into child k.
DescendedAt(node, k, below) ==
    Passed([node EXCEPT !.is_terminal = FALSE, !.children[k] = below.node],
           below.value, below.depth)

\* One iteration from a node down: selection by UCB while the node has
\* children and is not terminal, then expansion, evaluation and the first
\* step of the backpropagation.
RECURSIVE SearchStep(_)
SearchStep(node) ==
    IF node.children # <<>> /\ ~check_terminal(node.my_agents, node.enemy_agents, node.depth)
    THEN DescendedAt(node, BestUcbChild(node.children),
                     SearchStep(node.children[BestUcbChild(node.children)]))
    ELSE StopAt(node,
                check_terminal(node.my_agents, node.enemy_agents, node.depth),
                IF ~check_terminal(node.my_agents, node.enemy_agents, node.depth)
                   /\ node.visits > 0
                THEN ExpandedChildren(node.my_agents, node.enemy_agents, node.depth,
                        generate_joint_actions(node.my_agents, node.enemy_agents,
                                               node.my_agents))
                ELSE <<>>)

\* The backpropagation goes on from the evaluated node to its parent only if
\* the parent is the root.
RootAfter(passed) ==
    IF passed.depth = 1 THEN Backprop(passed.node, passed.value) ELSE passed.node

\* The root children a search is run on: a turn in which main uses it.
SearchInputs ==
    UNION {AgentLists(ids, {}) : ids \in {l \in IdLists :
                /\ Len(l) <= Min(MaxAgents, MaxSearchAgents)
                /\ Len(SelectSeq(l, LAMBDA id : Profiles[id].player = my_id)) >= 2
                /\ Len(SelectSeq(l, LAMBDA id : Profiles[id].player # my_id)) >= 1}}

InitSearch ==
    /\ all_agents_data = [id \in 1..Len(Profiles) |-> Profiles[id]]
    /\ my_agent_ids = SelectSeq([i \in 1..Len(Profiles) |-> i],
                                LAMBDA id : Profiles[id].player = my_id)
    /\ board_width = BoardW
    /\ board_height = BoardH
    /\ tile_map = TileRows
    /\ turn_number = 3
    /\ pc = "decide"
    /\ current_my_agents = <<>>
    /\ current_enemy_agents = <<>>
    /\ my_agent_count = 0
    /\ agent_decisions = <<>>
    /\ movement_blacklist = {}
    /\ out = <<>>
    /\ raised = FALSE
    /\ prev_raised = FALSE
    /\ call = NoCall
    /\ ret = NoRet
    /\ smitsimax_used = FALSE
    /\ NoSearch
    /\ sim = NoSim

search_frame == <<all_agents_data, my_agent_ids, board_width, board_height, tile_map,
                  turn_number, current_my_agents, current_enemy_agents, my_agent_count,
                  agent_decisions, movement_blacklist, out, raised, prev_raised, call, ret,
                  smitsimax_used, sim>>

\* main calls smitsimax_search(current_my_agents, current_enemy_agents, 20, 30.0):
\* start_time is taken and the root node made.
SearchCalled ==
    /\ pc = "decide"
    /\ \E agents \in SearchInputs :
          /\ current_my_agents' = SelectSeq(agents, LAMBDA a : IsMine(a.agent_id))
          /\ current_enemy_agents' = SelectSeq(agents, LAMBDA a : ~IsMine(a.agent_id))
          /\ root' = SmitsimaxNode(SelectSeq(agents, LAMBDA a : IsMine(a.agent_id)),
                                   SelectSeq(agents, LAMBDA a : ~IsMine(a.agent_id)),
                                   0, <<>>)
    /\ my_agent_count' = Len(current_my_agents')
    /\ smitsimax_used' = TRUE
    /\ pc' = "search"
    /\ UNCHANGED <<all_agents_data, my_agent_ids, board_width, board_height, tile_map,
                   turn_number, agent_decisions, movement_blacklist, out, raised,
                   prev_raised, call, ret, iteration, expired, overrun, result, sim>>

\* The clock passes start_time + time_limit_ms.
ClockExpires ==
    /\ pc = "search"
    /\ ~expired
    /\ expired' = TRUE
    /\ UNCHANGED <<pc, root, iteration, overrun, result>>
    /\ UNCHANGED search_frame

\* Mutant: the clock is polled every 10th iteration.
LoopLeft_PollEvery10 == iteration >= MaxIterations \/ (iteration % 10 = 0 /\ expired)

\* The loop is left: the counter reached max_iterations, or the poll of an
\* iteration divisible by 5 found the time limit exceeded.
LoopLeft == iteration >= MaxIterations \/ (iteration % 5 = 0 /\ expired)

\* One iteration of the loop.
SearchIteration ==
    /\ pc = "search"
    /\ ~LoopLeft
    /\ root' = RootAfter(SearchStep(root))
    /\ iteration' = iteration + 1
    /\ overrun' = IF expired THEN overrun + 1 ELSE overrun
    /\ UNCHANGED <<pc, expired, result>>
    /\ UNCHANGED search_frame

\* Mutant: the joint action of the first child with the fewest visits.
RootSelection_LeastVisited(my_agents, children) ==
    IF children = <<>>
    THEN [i \in 1..Len(my_agents) |-> Decision("HUNKER_DOWN", 50)]
    ELSE children[CHOOSE c \in 1..Len(children) :
                    /\ \A j \in 1..Len(children) : children[j].visits >= children[c].visits
                    /\ \A j \in 1..(c - 1) : children[j].visits > children[c].visits
                 ].joint_action

\* The joint action returned for the children the root has.
RootSelection(my_agents, children) ==
    IF children = <<>>
    THEN [i \in 1..Len(my_agents) |-> Decision("HUNKER_DOWN", 50)]
    ELSE children[CHOOSE c \in 1..Len(children) :
                    /\ \A j \in 1..Len(children) : children[j].visits <= children[c].visits
                    /\ \A j \in 1..(c - 1) : children[j].visits < children[c].visits
                 ].joint_action

\* After the loop: the fallback or the joint action of the most visited child.
SearchReturns ==
    /\ pc = "search"
    /\ LoopLeft
    /\ result' = RootSelection(root.my_agents, root.children)
    /\ pc' = "returned"
    /\ UNCHANGED <<root, iteration, expired, overrun>>
    /\ UNCHANGED search_frame

NextSearch == SearchCalled \/ ClockExpires \/ SearchIteration \/ SearchReturns

SpecSearch == InitSearch /\ [][NextSearch]_vars

\* The steps of SearchIteration and of SearchReturns, told by the loop
\* counter and the position alone.
IterationRuns == pc = "search" /\ ~LoopLeft /\ iteration' = iteration + 1
FunctionReturns == pc = "search" /\ LoopLeft /\ pc' = "returned"

\* Once called, the loop goes on until it is left, and the function then
\* returns: the thread is not suspended.
FairSearch == SpecSearch /\ WF_iteration(IterationRuns) /\ WF_pc(FunctionReturns)

(***************************************************************************)
(* reference_integration: a rollout of search_original                     *)
(***************************************************************************)
MAX_SEARCH_DEPTH == 6
MaxRolloutAgents == 3   \* agents listed in a turn whose rollout is followed

manhattan_distance(x1, y1, x2, y2) == Abs(x1 - x2) + Abs(y1 - y2)

\* base_damage * (1.0 - 0.25 * (distance - 1)) is soaking_power * (5 - distance) / 4.
calculate_shooting_damage(shooter, distance) ==
    IF distance > shooter.optimal_range THEN 0
    ELSE IF distance > 1
         THEN Max(0, Trunc(shooter.soaking_power * (5 - distance), 4))
         ELSE Max(0, shooter.soaking_power)

\* A move choice of an agent's tree (SmitsimaxNode of reference_integration).
MoveNode(type, target_agent_id, x, y) ==
    [action_type |-> type, target_agent_id |-> target_agent_id,
     target_x |-> x, target_y |-> y]

SimAgents(s, is_my_agent) == IF is_my_agent THEN s.my_agents ELSE s.enemy_agents
SimTargets(s, is_my_agent) == IF is_my_agent THEN s.enemy_agents ELSE s.my_agents

\* Some agent of either side stands on the tile.
SimBlocked(s, x, y) ==
    \/ \E i \in 1..Len(s.my_agents) : s.my_agents[i].x = x /\ s.my_agents[i].y = y
    \/ \E i \in 1..Len(s.enemy_agents) : s.enemy_agents[i].x = x /\ s.enemy_agents[i].y = y

ShootNodes(agent, data, targets) ==
    IF agent.cooldown # 0 THEN {}
    ELSE {MoveNode("SHOOT", targets[t].agent_id, -1, -1) :
            t \in {t \in 1..Len(targets) :
                     /\ targets[t].wetness < 100
                     /\ manhattan_distance(agent.x, agent.y, targets[t].x, targets[t].y)
                           <= data.optimal_range}}

WalkNodes(agent, s) ==
    {MoveNode("MOVE", -1, agent.x + d[1], agent.y + d[2]) :
        d \in {d \in {<<-1, 0>>, <<1, 0>>, <<0, -1>>, <<0, 1>>,
                      <<-1, -1>>, <<-1, 1>>, <<1, -1>>, <<1, 1>>} :
                 /\ agent.x + d[1] >= 0 /\ agent.x + d[1] < board_width
                 /\ agent.y + d[2] >= 0 /\ agent.y + d[2] < board_height
                 /\ ~SimBlocked(s, agent.x + d[1], agent.y + d[2])}}

ThrowNodes(agent, data, targets) ==
    IF agent.cooldown # 0 \/ agent.splash_bombs <= 0 THEN {}
    ELSE {MoveNode("THROW", -1, targets[t].x, targets[t].y) :
            t \in {t \in 1..Len(targets) :
                     /\ targets[t].wetness < 100
                     /\ manhattan_distance(agent.x, agent.y, targets[t].x, targets[t].y)
                           <= data.optimal_range * 2}}

\* The children expand_node gives a node: the moves of the agent in the
\* state the simulation is in.
create_tactical_moves(agent, s, is_my_agent) ==
    {MoveNode("HUNKER_DOWN", -1, -1, -1)}
    \cup ShootNodes(agent, all_agents_data[agent.agent_id], SimTargets(s, is_my_agent))
    \cup WalkNodes(agent, s)
    \cup ThrowNodes(agent, all_agents_data[agent.agent_id], SimTargets(s, is_my_agent))

\* The targets after a shot: the first target with the id takes the damage.
ShotTargets(agent, data, targets, hit) ==
    IF hit = {} THEN targets
    ELSE [targets EXCEPT ![CHOOSE t \in hit : \A u \in hit : t <= u].wetness =
            @ + calculate_shooting_damage(data,
                    manhattan_distance(agent.x, agent.y,
                        targets[CHOOSE t \in hit : \A u \in hit : t <= u].x,
                        targets[CHOOSE t \in hit : \A u \in hit : t <= u].y))]

\* The targets after a throw: every target within distance 1 takes the damage.
SplashedTargets(data, targets, node) ==
    [t \in 1..Len(targets) |->
        IF manhattan_distance(targets[t].x, targets[t].y, node.target_x, node.target_y) <= 1
        THEN [targets[t] EXCEPT !.wetness = @ + (data.soaking_power \div 2)]
        ELSE targets[t]]

\* The acting agent and the targets after the node's action.
ActionOutcome(agent, data, targets, node) ==
    IF node.action_type = "SHOOT" /\ agent.cooldown = 0
    THEN [agent |-> IF \E t \in 1..Len(targets) : targets[t].agent_id = node.target_agent_id
                    THEN [agent EXCEPT !.cooldown = data.shoot_cooldown] ELSE agent,
          targets |-> ShotTargets(agent, data, targets,
                        {t \in 1..Len(targets) : targets[t].agent_id = node.target_agent_id})]
    ELSE IF node.action_type = "MOVE"
    THEN [agent |-> IF /\ node.target_x >= 0 /\ node.target_x < board_width
                       /\ node.target_y >= 0 /\ node.target_y < board_height
                    THEN [agent EXCEPT !.x = node.target_x, !.y = node.target_y]
                    ELSE agent,
          targets |-> targets]
    ELSE IF node.action_type = "THROW" /\ agent.cooldown = 0 /\ agent.splash_bombs > 0
    THEN [agent |-> [agent EXCEPT !.splash_bombs = @ - 1, !.cooldown = data.shoot_cooldown],
          targets |-> Vec(SplashedTargets(data, targets, node))]
    ELSE [agent |-> agent, targets |-> targets]

\* The two sides after the action of the agent at agent_index.
SidesAfter(s, agent_index, is_my_agent, outcome) ==
    IF is_my_agent
    THEN [s EXCEPT !.my_agents[agent_index] = outcome.agent,
                   !.enemy_agents = outcome.targets]
    ELSE [s EXCEPT !.enemy_agents[agent_index] = outcome.agent,
                   !.my_agents = outcome.targets]

apply_action(s, agent_index, is_my_agent, node) ==
    SidesAfter(s, agent_index, is_my_agent,
               ActionOutcome(SimAgents(s, is_my_agent)[agent_index],
                             all_agents_data[SimAgents(s, is_my_agent)[agent_index].agent_id],
                             SimTargets(s, is_my_agent), node))

\* The cooldowns of both sides go down by one.
reset_to_base_state(s) ==
    [s EXCEPT !.my_agents = Vec([i \in 1..Len(s.my_agents) |->
                    IF s.my_agents[i].cooldown > 0
                    THEN [s.my_agents[i] EXCEPT !.cooldown = @ - 1] ELSE s.my_agents[i]]),
              !.enemy_agents = Vec([i \in 1..Len(s.enemy_agents) |->
                    IF s.enemy_agents[i].cooldown > 0
                    THEN [s.enemy_agents[i] EXCEPT !.cooldown = @ - 1]
                    ELSE s.enemy_agents[i]])]

\* The turns whose rollout is followed: both sides are listed.
RolloutInputs ==
    UNION {AgentLists(ids, {}) : ids \in {l \in IdLists :
                /\ Len(l) <= Min(MaxAgents, MaxRolloutAgents)
                /\ Len(SelectSeq(l, LAMBDA id : Profiles[id].player = my_id)) >= 1
                /\ Len(SelectSeq(l, LAMBDA id : Profiles[id].player # my_id)) >= 1}}

\* The simulation state set up for a turn.  agent_idx counts the trees from
\* 0: the controlled agents first, then the opposing agents.
InitRollout ==
    /\ all_agents_data = [id \in 1..Len(Profiles) |-> Profiles[id]]
    /\ my_agent_ids = SelectSeq([i \in 1..Len(Profiles) |-> i],
                                LAMBDA id : Profiles[id].player = my_id)
    /\ board_width = BoardW
    /\ board_height = BoardH
    /\ tile_map = TileRows
    /\ turn_number = 1
    /\ pc = "reset"
    /\ current_my_agents = <<>>
    /\ current_enemy_agents = <<>>
    /\ my_agent_count = 0
    /\ agent_decisions = <<>>
    /\ movement_blacklist = {}
    /\ out = <<>>
    /\ raised = FALSE
    /\ prev_raised = FALSE
    /\ call = NoCall
    /\ ret = NoRet
    /\ smitsimax_used = FALSE
    /\ NoSearch
    /\ \E agents \in RolloutInputs :
          sim = [my_agents |-> SelectSeq(agents, LAMBDA a : Profiles[a.agent_id].player = my_id),
                 enemy_agents |-> SelectSeq(agents, LAMBDA a : Profiles[a.agent_id].player # my_id),
                 depth |-> 0, agent_idx |-> 0]

rollout_frame == <<all_agents_data, my_agent_ids, board_width, board_height, tile_map,
                   turn_number, current_my_agents, current_enemy_agents, my_agent_count,
                   agent_decisions, movement_blacklist, out, raised, prev_raised, call, ret,
                   smitsimax_used, root, iteration, expired, overrun, result>>

\* The first iteration of search_original finds roots without a visit and
\* children: it resets the state, applies nothing and gives each root its
\* first visit.  The second iteration resets the state again and is the
\* rollout followed here.
RolloutReset ==
    /\ pc = "reset"
    /\ sim' = reset_to_base_state(reset_to_base_state(sim))
    /\ pc' = "rollout"
    /\ UNCHANGED rollout_frame

\* The loop counters after the agent at agent_idx was processed.
NextAgent(s) ==
    IF s.agent_idx + 1 < Len(s.my_agents) + Len(s.enemy_agents)
    THEN [s EXCEPT !.agent_idx = @ + 1]
    ELSE [s EXCEPT !.agent_idx = 0, !.depth = @ + 1]

\* One agent of one depth level: its node, visited for the first time, is
\* expanded in the state the simulation is in, one of its children is chosen
\* at random (the node has fewer than MIN_RANDOM_VISITS visits) and applied.
RolloutStep ==
    /\ pc = "rollout"
    /\ sim.depth < MAX_SEARCH_DEPTH
    /\ \E node \in create_tactical_moves(
                      IF sim.agent_idx < Len(sim.my_agents)
                      THEN sim.my_agents[sim.agent_idx + 1]
                      ELSE sim.enemy_agents[sim.agent_idx - Len(sim.my_agents) + 1],
                      sim, sim.agent_idx < Len(sim.my_agents)) :
          sim' = NextAgent(apply_action(sim,
                              IF sim.agent_idx < Len(sim.my_agents)
                              THEN sim.agent_idx + 1
                              ELSE sim.agent_idx - Len(sim.my_agents) + 1,
                              sim.agent_idx < Len(sim.my_agents), node))
    /\ UNCHANGED pc
    /\ UNCHANGED rollout_frame

\* The depth loop is over: the state is evaluated.
RolloutEnds ==
    /\ pc = "rollout"
    /\ sim.depth >= MAX_SEARCH_DEPTH
    /\ pc' = "evaluate"
    /\ UNCHANGED sim
    /\ UNCHANGED rollout_frame

NextRollout == RolloutReset \/ RolloutStep \/ RolloutEnds

SpecRollout == InitRollout /\ [][NextRollout]_vars

(***************************************************************************)
(* The splash helpers called on their own                                  *)
(***************************************************************************)
MaxSplashEnemies == 2   \* greatest number of enemies passed
SplashW == 3            \* the enemies and the landing tile lie in a
SplashH == 3            \* SplashW x SplashH area

\* reference_integration: calculate_total_splash_damage and
\* count_enemies_in_splash.
reference_calculate_total_splash_damage(enemies, bomb_x, bomb_y) ==
    THROW_DAMAGE * Cardinality({i \in 1..Len(enemies) :
        is_alive(enemies[i])
        /\ Abs(bomb_x - enemies[i].x) + Abs(bomb_y - enemies[i].y) <= 1})

reference_count_enemies_in_splash(enemies, bomb_x, bomb_y) ==
    Cardinality({i \in 1..Len(enemies) :
        is_alive(enemies[i])
        /\ Abs(bomb_x - enemies[i].x) + Abs(bomb_y - enemies[i].y) <= 1})

\* The fields of an AgentState the helpers read.
SplashEnemies ==
    [x : 0..(SplashW - 1), y : 0..(SplashH - 1), wetness : {0, 100}]

SplashCalls ==
    {[fn |-> "calculate_total_splash_damage", enemies |-> e, bomb_x |-> bx, bomb_y |-> by] :
        e \in UNION {[1..n -> SplashEnemies] : n \in 0..MaxSplashEnemies},
        bx \in 0..(SplashW - 1), by \in 0..(SplashH - 1)}

InitSplash ==
    /\ all_agents_data = [id \in 1..Len(Profiles) |-> Profiles[id]]
    /\ my_agent_ids = SelectSeq([i \in 1..Len(Profiles) |-> i],
                                LAMBDA id : Profiles[id].player = my_id)
    /\ board_width = BoardW
    /\ board_height = BoardH
    /\ tile_map = TileRows
    /\ turn_number = 0
    /\ pc = "call"
    /\ current_my_agents = <<>>
    /\ current_enemy_agents = <<>>
    /\ my_agent_count = 0
    /\ agent_decisions = <<>>
    /\ movement_blacklist = {}
    /\ out = <<>>
    /\ raised = FALSE
    /\ prev_raised = FALSE
    /\ call \in SplashCalls
    /\ ret = NoRet
    /\ smitsimax_used = FALSE
    /\ NoSearch
    /\ sim = NoSim

\* The four helpers on the same arguments.
CallSplashDamage ==
    /\ pc = "call"
    /\ call.fn = "calculate_total_splash_damage"
    /\ ret' = [done |-> TRUE,
               value |-> [damage |-> calculate_total_splash_damage_clean(
                                         call.enemies, call.bomb_x, call.bomb_y),
                          count |-> count_enemies_in_splash_clean(
                                         call.enemies, call.bomb_x, call.bomb_y),
                          reference_damage |-> reference_calculate_total_splash_damage(
                                         call.enemies, call.bomb_x, call.bomb_y),
                          reference_count |-> reference_count_enemies_in_splash(
                                         call.enemies, call.bomb_x, call.bomb_y)]]
    /\ pc' = "returned"
    /\ UNCHANGED <<all_agents_data, my_agent_ids, board_width, board_height, tile_map,
                   turn_number, current_my_agents, current_enemy_agents, my_agent_count,
                   agent_decisions, movement_blacklist, out, raised, prev_raised, call,
                   smitsimax_used, root, iteration, expired, overrun, result, sim>>

NextSplash == CallSplashDamage

SpecSplash == InitSplash /\ [][NextSplash]_vars

(***************************************************************************)
(* expectimax_evaluate called on its own                                   *)
(***************************************************************************)
ExpectimaxW == 6         \* the agent, the enemies and the destinations lie in one row of this width
MaxOptions == 2          \* greatest number of options passed
MaxExpectimaxEnemies == 2

\* The options: every action type, a destination for the moving ones, a
\* value below or above zero.
ExpectimaxOptions ==
    {[Decision(type, value) EXCEPT !.target_x = x, !.target_y = 0] :
        type \in MoveTypes, value \in {-500, 1000}, x \in 0..(ExpectimaxW - 1)}
    \cup {Decision(type, value) :
            type \in {"SHOOT", "THROW", "HUNKER_DOWN"}, value \in {-500, 1000}}

ExpectimaxCalls ==
    {[fn |-> "expectimax_evaluate",
      agent |-> AgentState(1, <<0, 0>>, 0, 0, 0),
      options |-> o,
      enemies |-> e] :
        o \in UNION {[1..n -> ExpectimaxOptions] : n \in 1..MaxOptions},
        e \in UNION {[1..n -> {AgentState(3, <<x, 0>>, 0, 1, w) :
                                  x \in {1, 3, 5}, w \in {0, 100}}] :
                     n \in 1..MaxExpectimaxEnemies}}

InitExpectimax ==
    /\ all_agents_data = [id \in 1..Len(Profiles) |-> Profiles[id]]
    /\ my_agent_ids = SelectSeq([i \in 1..Len(Profiles) |-> i],
                                LAMBDA id : Profiles[id].player = my_id)
    /\ board_width = ExpectimaxW
    /\ board_height = BoardH
    /\ tile_map = [y \in 0..(BoardH - 1) |-> [x \in 0..(ExpectimaxW - 1) |-> 0]]
    /\ turn_number = 0
    /\ pc = "call"
    /\ current_my_agents = <<>>
    /\ current_enemy_agents = <<>>
    /\ my_agent_count = 0
    /\ agent_decisions = <<>>
    /\ movement_blacklist = {}
    /\ out = <<>>
    /\ raised = FALSE
    /\ prev_raised = FALSE
    /\ call \in ExpectimaxCalls
    /\ ret = NoRet
    /\ smitsimax_used = FALSE
    /\ NoSearch
    /\ sim = NoSim

CallExpectimaxEvaluate ==
    /\ pc = "call"
    /\ call.fn = "expectimax_evaluate"
    /\ ret' = [done |-> TRUE,
               value |-> expectimax_evaluate(call.agent, call.options, call.enemies,
                                             <<call.agent>>)]
    /\ pc' = "returned"
    /\ UNCHANGED <<all_agents_data, my_agent_ids, board_width, board_height, tile_map,
                   turn_number, current_my_agents, current_enemy_agents, my_agent_count,
                   agent_decisions, movement_blacklist, out, raised, prev_raised, call,
                   smitsimax_used, root, iteration, expired, overrun, result, sim>>

NextExpectimax == CallExpectimaxEvaluate

SpecExpectimax == InitExpectimax /\ [][NextExpectimax]_vars

(***************************************************************************)
(* generate_joint_actions called on its own                                *)
(***************************************************************************)
\* The index vectors the do-while loop of generate_joint_actions pushes a
\* joint action for, in order.
RECURSIVE JointIndexLoop(_, _, _)
JointIndexLoop(sizes, indices, pushed) ==
    LET n == Len(sizes)
        after == Append(pushed, indices)
        next == OdometerStep(indices, sizes, n)
    IN IF Len(after) >= 16 THEN after
       ELSE IF next[1] < sizes[1] \/ \E i \in 2..n : next[i] > 0
            THEN JointIndexLoop(sizes, next, after)
            ELSE after

JointCalls ==
    {[fn |-> "generate_joint_actions",
      my_agents |-> SelectSeq(agents, LAMBDA a : IsMine(a.agent_id)),
      enemies |-> SelectSeq(agents, LAMBDA a : ~IsMine(a.agent_id))] :
        agents \in SearchInputs}

InitJoint ==
    /\ all_agents_data = [id \in 1..Len(Profiles) |-> Profiles[id]]
    /\ my_agent_ids = SelectSeq([i \in 1..Len(Profiles) |-> i],
                                LAMBDA id : Profiles[id].player = my_id)
    /\ board_width = BoardW
    /\ board_height = BoardH
    /\ tile_map = TileRows
    /\ turn_number = 3
    /\ pc = "call"
    /\ current_my_agents = <<>>
    /\ current_enemy_agents = <<>>
    /\ my_agent_count = 0
    /\ agent_decisions = <<>>
    /\ movement_blacklist = {}
    /\ out = <<>>
    /\ raised = FALSE
    /\ prev_raised = FALSE
    /\ call \in JointCalls
    /\ ret = NoRet
    /\ smitsimax_used = FALSE
    /\ NoSearch
    /\ sim = NoSim

\* The call returns the joint actions; the candidate actions of each agent
\* and the index vectors of the loop are kept beside them.
CallGenerateJointActions ==
    /\ pc = "call"
    /\ call.fn = "generate_joint_actions"
    /\ LET agent_actions == [i \in 1..Len(call.my_agents) |->
                                AgentActions(call.my_agents[i], call.enemies, call.my_agents)]
       IN ret' = [done |-> TRUE,
                  value |-> [joint_actions |-> generate_joint_actions(call.my_agents,
                                                   call.enemies, call.my_agents),
                             agent_actions |-> agent_actions,
                             indices |-> JointIndexLoop(
                                            [i \in 1..Len(agent_actions) |->
                                                Len(agent_actions[i])],
                                            [i \in 1..Len(agent_actions) |-> 0], <<>>)]]
    /\ pc' = "returned"
    /\ UNCHANGED <<all_agents_data, my_agent_ids, board_width, board_height, tile_map,
                   turn_number, current_my_agents, current_enemy_agents, my_agent_count,
                   agent_decisions, movement_blacklist, out, raised, prev_raised, call,
                   smitsimax_used, root, iteration, expired, overrun, result, sim>>

NextJoint == CallGenerateJointActions

SpecJoint == InitJoint /\ [][NextJoint]_vars

(***************************************************************************)
(* reference_integration: select_child_ucb called on its own               *)
(***************************************************************************)
MIN_RANDOM_VISITS == 8
MaxChildren == 3     \* greatest number of children of the node passed

\* A child of the node: tactical_priority is kept in tenths.  A visited child
\* has one visit, so that the exploration term
\* EXPLORATION_PARAM * sqrt(log(node->visits)) / sqrt(child->visits) is the
\* same for all visited children of a call.
SelectChildren ==
    [visits : {0}, total_score : {0}, tactical_priority : {1, 5}]
    \cup [visits : {1}, total_score : {0, 10}, tactical_priority : {1, 5}]

SelectCalls ==
    {[fn |-> "select_child_ucb", visits |-> v, children |-> c] :
        v \in {MIN_RANDOM_VISITS - 1, MIN_RANDOM_VISITS},
        c \in UNION {[1..n -> SelectChildren] : n \in 0..MaxChildren}}

\* ucb of a visited child less the common exploration term, times 100, with
\* sim.scale_parameters[agent_index] at its initial value 1.0:
\* avg_score / (visits * scale) + tactical_priority * 0.3.
ScaledUcb(child) == 100 * child.total_score + 3 * child.tactical_priority

\* The loop over the children from child k on: best_child is an index (0 for
\* nullptr), best_ucb a value or minus infinity.
RECURSIVE SelectLoop(_, _, _, _)
SelectLoop(children, k, best_child, best_ucb) ==
    IF k > Len(children) THEN best_child
    ELSE IF children[k].visits = 0
         THEN SelectLoop(children, k + 1,
                  IF best_child = 0 \/ children[k].tactical_priority >
                                       children[best_child].tactical_priority
                  THEN k ELSE best_child,
                  best_ucb)
         ELSE IF ~best_ucb.finite \/ ScaledUcb(children[k]) > best_ucb.value
              THEN SelectLoop(children, k + 1, k,
                              [finite |-> TRUE, value |-> ScaledUcb(children[k])])
              ELSE SelectLoop(children, k + 1, best_child, best_ucb)

\* select_child_ucb once node->visits >= MIN_RANDOM_VISITS.
SelectPastWarmUp(children) ==
    SelectLoop(children, 1, 0, [finite |-> FALSE, value |-> 0])

InitSelect ==
    /\ all_agents_data = [id \in 1..Len(Profiles) |-> Profiles[id]]
    /\ my_agent_ids = SelectSeq([i \in 1..Len(Profiles) |-> i],
                                LAMBDA id : Profiles[id].player = my_id)
    /\ board_width = BoardW
    /\ board_height = BoardH
    /\ tile_map = TileRows
    /\ turn_number = 0
    /\ pc = "call"
    /\ current_my_agents = <<>>
    /\ current_enemy_agents = <<>>
    /\ my_agent_count = 0
    /\ agent_decisions = <<>>
    /\ movement_blacklist = {}
    /\ out = <<>>
    /\ raised = FALSE
    /\ prev_raised = FALSE
    /\ call \in SelectCalls
    /\ ret = NoRet
    /\ smitsimax_used = FALSE
    /\ NoSearch
    /\ sim = NoSim

\* select_child_ucb returns the index of a child, 0 for nullptr: any child
\* during the warm-up (uniform_int_distribution), the loop's best child after.
CallSelectChildUcb ==
    /\ pc = "call"
    /\ call.fn = "select_child_ucb"
    /\ \E random \in 1..Max(1, Len(call.children)) :
          ret' = [done |-> TRUE,
                  value |-> IF call.children = <<>> THEN 0
                            ELSE IF call.visits < MIN_RANDOM_VISITS THEN random
                            ELSE SelectPastWarmUp(call.children)]
    /\ pc' = "returned"
    /\ UNCHANGED <<all_agents_data, my_agent_ids, board_width, board_height, tile_map,
                   turn_number, current_my_agents, current_enemy_agents, my_agent_count,
                   agent_decisions, movement_blacklist, out, raised, prev_raised, call,
                   smitsimax_used, root, iteration, expired, overrun, result, sim>>

NextSelect == CallSelectChildUcb

SpecSelect == InitSelect /\ [][NextSelect]_vars

(***************************************************************************)
(* main: the per-agent loop of a turn, one agent at a time                 *)
(***************************************************************************)
\* A match in which agent 1 is a gunner of power 16 and range 4.
FocusProfiles == [Profiles EXCEPT ![1] = AgentData(1, 0, 2, 4, 16, 0)]
FocusMyWetness == {0}
FocusEnemyWetness == {0, 44}

RECURSIVE FocusLists(_, _)
\* Every list of agent states for the ids, on pairwise distinct open tiles.
FocusLists(ids, used) ==
    IF ids = <<>> THEN {<<>>}
    ELSE UNION {UNION {{<<a>> \o rest : rest \in FocusLists(Tail(ids), used \cup {pos})} :
                        a \in AgentStatesAt(Head(ids), pos,
                                IF Profiles[Head(ids)].player = my_id
                                THEN FocusMyWetness ELSE FocusEnemyWetness)} :
                pos \in {t \in Tiles : TileAt(t[1], t[2]) = 0} \ used}

\* The turns the loop is run on: one or two controlled agents, one or two
\* opposing agents.
FocusInputs ==
    UNION {FocusLists(ids, {}) : ids \in {l \in IdLists :
                /\ Len(l) <= MaxSearchAgents
                /\ Len(SelectSeq(l, LAMBDA id : Profiles[id].player = my_id)) >= 1
                /\ Len(SelectSeq(l, LAMBDA id : Profiles[id].player # my_id)) >= 1}}

\* No agent loop is running.
NoLoop == [fn |-> "none"]

InitFocus ==
    /\ all_agents_data = [id \in 1..Len(FocusProfiles) |-> FocusProfiles[id]]
    /\ my_agent_ids = SelectSeq([i \in 1..Len(Profiles) |-> i],
                                LAMBDA id : Profiles[id].player = my_id)
    /\ board_width = BoardW
    /\ board_height = BoardH
    /\ tile_map = TileRows
    /\ turn_number = 0
    /\ pc = "read"
    /\ current_my_agents = <<>>
    /\ current_enemy_agents = <<>>
    /\ my_agent_count = 0
    /\ agent_decisions = <<>>
    /\ movement_blacklist = {}
    /\ out = <<>>
    /\ raised = FALSE
    /\ prev_raised = FALSE
    /\ call = NoLoop
    /\ ret = NoRet
    /\ smitsimax_used = FALSE
    /\ NoSearch
    /\ sim = NoSim

(***************************************************************************)
(* The per-agent loop on a wider board                                     *)
(***************************************************************************)
WideW == 8     \* width of the board the retreating moves are followed on

\* The turns the loop is run on there: agents 1 and 2, or agent 1 alone,
\* against agent 3, all unhurt and off cooldown, on pairwise distinct open
\* tiles; agent 2 has thrown its bombs.
RECURSIVE WideLists(_, _)
WideLists(ids, used) ==
    IF ids = <<>> THEN {<<>>}
    ELSE UNION {{<<AgentState(Head(ids), pos, 0,
                              IF Profiles[Head(ids)].player = my_id THEN 0
                              ELSE Profiles[Head(ids)].splash_bombs, 0)>> \o rest :
                    rest \in WideLists(Tail(ids), used \cup {pos})} :
                pos \in {t \in (0..(WideW - 1)) \X (0..(BoardH - 1)) :
                            ~(t[1] = 1 /\ t[2] = 0)} \ used}

WideInputs == WideLists(<<1, 2, 3>>, {}) \cup WideLists(<<1, 3>>, {})

InitWide ==
    /\ all_agents_data = [id \in 1..Len(Profiles) |-> Profiles[id]]
    /\ my_agent_ids = SelectSeq([i \in 1..Len(Profiles) |-> i],
                                LAMBDA id : Profiles[id].player = my_id)
    /\ board_width = WideW
    /\ board_height = BoardH
    /\ tile_map = [y \in 0..(BoardH - 1) |-> [x \in 0..(WideW - 1) |->
                      IF x = 1 /\ y = 0 THEN 1 ELSE 0]]
    /\ turn_number = 0
    /\ pc = "read"
    /\ current_my_agents = <<>>
    /\ current_enemy_agents = <<>>
    /\ my_agent_count = 0
    /\ agent_decisions = <<>>
    /\ movement_blacklist = {}
    /\ out = <<>>
    /\ raised = FALSE
    /\ prev_raised = FALSE
    /\ call = NoLoop
    /\ ret = NoRet
    /\ smitsimax_used = FALSE
    /\ NoSearch
    /\ sim = NoSim

\* The turns the loop is entered with on the board of the match.
LoopInputs == IF board_width = WideW THEN WideInputs ELSE FocusInputs

loop_frame == <<all_agents_data, my_agent_ids, board_width, board_height, tile_map,
                ret, root, iteration, expired, overrun, result, sim, raised, prev_raised>>

\* The turn's input is read, the priority target chosen and, from turn 3 on
\* with two controlled agents, the search run; the per-agent loop starts.
LoopEntered ==
    /\ pc = "read"
    /\ \E agents \in LoopInputs, turn \in {2, 3} :
          /\ turn_number' = turn
          /\ current_my_agents' = SelectSeq(agents, LAMBDA a : IsMine(a.agent_id))
          /\ current_enemy_agents' = SelectSeq(agents, LAMBDA a : ~IsMine(a.agent_id))
    /\ my_agent_count' = Len(current_my_agents')
    /\ smitsimax_used' = use_smitsimax(current_my_agents', current_enemy_agents', turn_number')
    /\ \E stop_poll \in {0, 20} :
          call' = [fn |-> "agent_loop", i |-> 1,
                   joint_actions |-> IF smitsimax_used'
                                     THEN smitsimax_search(current_my_agents',
                                                           current_enemy_agents', 20, stop_poll)
                                     ELSE <<>>,
                   acc |-> [decisions |-> [i \in 1..Len(current_my_agents') |->
                                                Decision("", 0)],
                            blacklist |-> {}],
                   proposed |-> Decision("", 0),
                   reserved |-> {},
                   decision |-> Decision("", 0)]
    /\ agent_decisions' = <<>>
    /\ movement_blacklist' = {}
    /\ out' = <<>>
    /\ pc' = "agents"
    /\ UNCHANGED loop_frame

\* The decision of agent i after the collision arbitration, before the
\* focus-fire override.
ArbitratedDecision(i, my_agents, enemy_agents, searched, joint_actions, acc) ==
    IF ~is_alive(my_agents[i]) THEN Decision("HUNKER_DOWN", 0)
    ELSE ResolveCollision(my_agents[i],
            ProposedDecision(i, my_agents, enemy_agents, searched, joint_actions),
            my_agents, enemy_agents, acc.blacklist)[1]

\* for (const auto& agent : current_my_agents): the body for agent call.i.
AgentIteration ==
    /\ pc = "agents"
    /\ call.i <= Len(current_my_agents)
    /\ call' = [call EXCEPT
                  !.i = call.i + 1,
                  !.acc = AgentStep(call.i, current_my_agents, current_enemy_agents,
                                    smitsimax_used, call.joint_actions, call.acc),
                  !.proposed = IF is_alive(current_my_agents[call.i])
                               THEN ProposedDecision(call.i, current_my_agents,
                                        current_enemy_agents, smitsimax_used,
                                        call.joint_actions)
                               ELSE Decision("HUNKER_DOWN", 0),
                  !.reserved = call.acc.blacklist,
                  !.decision = ArbitratedDecision(call.i, current_my_agents,
                                    current_enemy_agents, smitsimax_used,
                                    call.joint_actions, call.acc)]
    /\ UNCHANGED <<turn_number, pc, current_my_agents, current_enemy_agents, my_agent_count,
                   agent_decisions, movement_blacklist, out, smitsimax_used>>
    /\ UNCHANGED loop_frame

\* The loop is left, the lines are printed and the turn's locals go out of
\* scope.
LoopLeaves ==
    /\ pc = "agents"
    /\ call.i > Len(current_my_agents)
    /\ agent_decisions' = call.acc.decisions
    /\ movement_blacklist' = call.acc.blacklist
    /\ out' = OutputLines(current_my_agents, call.acc.decisions, my_agent_count)
    /\ call' = NoLoop
    /\ current_my_agents' = <<>>
    /\ current_enemy_agents' = <<>>
    /\ pc' = "read"
    /\ UNCHANGED <<turn_number, my_agent_count, smitsimax_used>>
    /\ UNCHANGED loop_frame

NextFocus == LoopEntered \/ AgentIteration \/ LoopLeaves

SpecFocus == InitFocus /\ [][NextFocus]_vars

SpecWide == InitWide /\ [][NextFocus]_vars

(***************************************************************************)
(* Properties of a decided turn                                            *)
(***************************************************************************)
\* The try block ran to its end: the decisions are final and printed.
Decided == pc = "flush" /\ ~raised

MyIdx == 1..Len(current_my_agents)
EnemyIdx == 1..Len(current_enemy_agents)

Destination(d) == <<d.target_x, d.target_y>>

NoLivingEnemy == \A e \in EnemyIdx : ~is_alive(current_enemy_agents[e])

\* C1: after the left-to-right arbitration of a turn, the destination tiles
\* of the finalized MOVE, MOVE_SHOOT and MOVE_THROW decisions are pairwise
\* distinct and each lies inside the board.
C1_DestinationsDistinctInBounds ==
    Decided =>
        \A i \in MyIdx :
            agent_decisions[i].action_type \in MoveTypes =>
                /\ InBounds(agent_decisions[i].target_x, agent_decisions[i].target_y)
                /\ \A j \in MyIdx :
                      (j # i /\ agent_decisions[j].action_type \in MoveTypes)
                      => Destination(agent_decisions[j]) # Destination(agent_decisions[i])

\* C1 witness: two living agents proposed the same destination, the
\* arbitration moved the later one to another tile, and both decisions stay
\* Move-class.
C1_Witness ==
    /\ Decided
    /\ ~use_smitsimax(current_my_agents, current_enemy_agents, turn_number)
    /\ \E i, j \in MyIdx :
        /\ i < j
        /\ is_alive(current_my_agents[i]) /\ is_alive(current_my_agents[j])
        /\ LET pi == make_optimal_decision(current_my_agents[i], current_enemy_agents,
                                           current_my_agents)
               pj == make_optimal_decision(current_my_agents[j], current_enemy_agents,
                                           current_my_agents)
           IN /\ pi.action_type \in MoveTypes /\ pj.action_type \in MoveTypes
              /\ Destination(pi) = Destination(pj)
        /\ agent_decisions[i].action_type \in MoveTypes
        /\ agent_decisions[j].action_type \in MoveTypes

\* C2: no finalized THROW or MOVE_THROW decision has a landing tile within
\* Manhattan distance 1 of a living controlled agent other than the thrower.
C2_NoAllyInSplash ==
    Decided =>
        \A i \in MyIdx :
            (is_alive(current_my_agents[i]) /\ agent_decisions[i].action_type \in ThrowTypes)
            => \A j \in MyIdx :
                  (j # i /\ is_alive(current_my_agents[j]))
                  => Dist(LandingTile(agent_decisions[i])[1], LandingTile(agent_decisions[i])[2],
                          current_my_agents[j].x, current_my_agents[j].y) > 1

\* C3: in a turn in which no opposing agent is alive, every finalized
\* decision is HUNKER_DOWN or MOVE.
C3_NoAttackWithoutLivingEnemy ==
    (Decided /\ NoLivingEnemy) =>
        \A i \in MyIdx : agent_decisions[i].action_type \in {"HUNKER_DOWN", "MOVE"}

\* The shot of agent a on enemy e at optimal range is lethal.
LethalShot(a, e) ==
    LET data == all_agents_data[a.agent_id]
        d == AgentDist(a, e)
    IN /\ is_alive(e)
       /\ d <= data.optimal_range
       /\ e.wetness + calculate_exact_shooting_damage(data.soaking_power,
                                                      data.optimal_range, d) >= 100
       /\ e.wetness + (data.soaking_power * calculate_cover_protection(a, e)) \div 4 >= 100

\* C4: a living controlled agent that is off cooldown and has a living enemy
\* in range on which its shot is lethal gets an attacking decision, not a
\* MOVE or HUNKER_DOWN, and the decision's kill probability is 1.0.
C4_LethalShotIsCertainAttack ==
    Decided =>
        \A i \in MyIdx :
            (/\ is_alive(current_my_agents[i])
             /\ current_my_agents[i].cooldown = 0
             /\ \E e \in EnemyIdx : LethalShot(current_my_agents[i], current_enemy_agents[e]))
            => /\ agent_decisions[i].action_type \in AttackTypes
               /\ agent_decisions[i].kill_probability = 100

\* The number of living controlled agents listed this turn.
AliveCount == Cardinality({i \in MyIdx : is_alive(current_my_agents[i])})

\* C5: a turn whose input was read prints exactly my_agent_count lines, on
\* the normal path and on the exception path, and the lines beyond the
\* living controlled agents are HUNKER_DOWN.
C5_ExpectedLineCount ==
    pc = "flush" =>
        /\ Len(out) = my_agent_count
        /\ \A l \in 1..Len(out) : l > AliveCount => out[l].action = "HUNKER_DOWN"

\* C6: a turn whose decisions raise an exception prints one HUNKER_DOWN line
\* per controlled agent id and nothing else; the loop goes on to read the
\* next turn with none of the turn's state kept; and the turn decided after
\* it gets the decisions and the lines its own input determines.
C6_ExceptionRecovery ==
    /\ [](pc = "flush" /\ raised =>
            /\ Len(out) = Len(my_agent_ids)
            /\ \A i \in 1..Len(out) :
                  out[i] = [agent_id |-> my_agent_ids[i], action |-> "HUNKER_DOWN",
                            x |-> -1, y |-> -1, target |-> -1,
                            bomb_x |-> -1, bomb_y |-> -1])
    /\ [](pc = "flush" /\ ~raised /\ prev_raised =>
            \E stop_poll \in {0, 20} :
                LET r == TurnDecisions(current_my_agents, current_enemy_agents,
                                       turn_number, stop_poll)
                IN /\ agent_decisions = r.decisions
                   /\ out = OutputLines(current_my_agents, r.decisions, my_agent_count))
    /\ [][(pc = "flush" /\ raised) =>
            /\ pc' = "read"
            /\ turn_number' = turn_number
            /\ current_my_agents' = <<>> /\ current_enemy_agents' = <<>>
            /\ agent_decisions' = <<>> /\ movement_blacklist' = {}]_vars

\* C6 witness: the turn after a failed turn is decided, with an action other
\* than HUNKER_DOWN for some agent.
C6_Witness ==
    /\ pc = "flush" /\ ~raised /\ prev_raised
    /\ \E i \in MyIdx : agent_decisions[i].action_type # "HUNKER_DOWN"
    /\ \E l \in 1..Len(out) : out[l].action # "HUNKER_DOWN"

\* C7, its precondition: a controlled agent listed in a turn whose id has no
\* entry in all_agents_data.  The table and my_agent_ids are filled by the
\* same loop at match init and neither is changed afterwards, so every listed
\* controlled agent has its profile: the case of C7 is never entered.
ControlledAgentsHaveProfiles ==
    \A i \in MyIdx : current_my_agents[i].agent_id \in DOMAIN all_agents_data

\* C8: every finalized Move-class decision of a living controlled agent has
\* a destination inside the board on which no other living agent, ally or
\* enemy, stands in the turn's state.
C8_DestinationFree ==
    Decided =>
        \A i \in MyIdx :
            (is_alive(current_my_agents[i]) /\ agent_decisions[i].action_type \in MoveTypes)
            => /\ InBounds(agent_decisions[i].target_x, agent_decisions[i].target_y)
               /\ \A j \in MyIdx :
                     (j # i /\ is_alive(current_my_agents[j]))
                     => Destination(agent_decisions[i])
                            # <<current_my_agents[j].x, current_my_agents[j].y>>
               /\ \A e \in EnemyIdx :
                     is_alive(current_enemy_agents[e])
                     => Destination(agent_decisions[i])
                            # <<current_enemy_agents[e].x, current_enemy_agents[e].y>>

(***************************************************************************)
(* Properties of the mechanics functions                                   *)
(***************************************************************************)
ShootingReturned == pc = "returned" /\ call.fn = "calculate_exact_shooting_damage"
BombReturned == pc = "returned" /\ call.fn = "calculate_exact_bomb_damage"

\* C9 as stated: calculate_exact_shooting_damage returns
\* floor(power * (1 - 0.25 * (d - 1))) for 1 <= d <= optimal_range and 0 for
\* d = 0 or d > optimal_range.
C9_ShootingDamageFloor ==
    ShootingReturned =>
        IF call.distance = 0 \/ call.distance > call.optimal_range
        THEN ret.value = 0
        ELSE ret.value = Floor(call.soaking_power * (5 - call.distance), 4)

\* C9 amended: calculate_exact_shooting_damage returns
\* max(0, floor(power * (1 - 0.25 * (d - 1)))) for 1 <= d <= optimal_range
\* and 0 for d = 0 or d > optimal_range.
C9_ShootingDamageClamped ==
    ShootingReturned =>
        IF call.distance = 0 \/ call.distance > call.optimal_range
        THEN ret.value = 0
        ELSE ret.value = Max(0, Floor(call.soaking_power * (5 - call.distance), 4))

\* C9 witness: a shot at distance 6 or more inside the optimal range, whose
\* penalised damage is negative, returns 0.
C9_Witness ==
    /\ ShootingReturned
    /\ call.distance >= 6 /\ call.distance <= call.optimal_range
    /\ call.soaking_power > 0
    /\ ret.value = 0

\* C10: calculate_exact_bomb_damage is nonzero exactly when splash_distance
\* is at most 1, and the hunkered result is the floor of half the unhunkered
\* result for the same splash_distance.
C10_BombDamage ==
    BombReturned =>
        /\ (ret.value # 0) <=> (call.splash_distance <= 1)
        /\ call.is_hunkered =>
              ret.value = Floor(calculate_exact_bomb_damage(call.splash_distance, FALSE), 2)
        /\ ~call.is_hunkered =>
              calculate_exact_bomb_damage(call.splash_distance, TRUE) = Floor(ret.value, 2)

\* C10 witness: a hunkered target inside the splash takes half the damage.
C10_Witness ==
    /\ BombReturned
    /\ call.is_hunkered /\ call.splash_distance <= 1
    /\ ret.value > 0
    /\ 2 * ret.value = THROW_DAMAGE

KillReturned == pc = "returned" /\ call.fn = "calculate_kill_probability"

\* C11: calculate_kill_probability(w, d) is 1.0 whenever w + d >= 100 and
\* (w + d) / 100 otherwise, for wetness w in 0..100 and damage d >= 0
\* (the result is kept in percent).
C11_KillProbability ==
    KillReturned =>
        IF call.current_wetness + call.damage >= 100
        THEN ret.value = 100
        ELSE ret.value = call.current_wetness + call.damage

\* C11 witness: a sum above 100 is capped at 1.0, and a sum below 100 has
\* been returned as it is.
C11_Witness ==
    /\ KillReturned
    /\ call.current_wetness + call.damage > 100
    /\ ret.value = 100

\* The decisions of the turn when every living agent enters the arbitration
\* with the decision of make_optimal_decision.
IndividualDecisions ==
    DecisionLoop(1, current_my_agents, current_enemy_agents, FALSE, <<>>,
                 [decisions |-> [i \in 1..Len(current_my_agents) |-> Decision("", 0)],
                  blacklist |-> {}]).decisions

\* C16: a turn uses the search exactly if it lists at least two controlled
\* agents and at least one opposing agent and its number is at least 3; in
\* every other turn the decisions are those that come from
\* make_optimal_decision for each living controlled agent.
C16_SearchUsedFromTurn3 ==
    Decided =>
        /\ smitsimax_used <=> /\ Len(current_my_agents) >= 2
                              /\ Len(current_enemy_agents) >= 1
                              /\ turn_number >= 3
        /\ ~smitsimax_used => agent_decisions = IndividualDecisions

\* C16 witness: a turn decided by the search whose decisions differ from
\* those of the individual heuristic.
C16_Witness ==
    /\ Decided
    /\ smitsimax_used
    /\ turn_number = 3
    /\ agent_decisions # IndividualDecisions

\* The plain Move candidates of agent a, and its best shot.
MoveCandidates(a) ==
    LET moves == generate_random_moves(a, current_enemy_agents, current_my_agents)
    IN {moves[k] : k \in {j \in 1..Len(moves) : moves[j].action_type = "MOVE"}}
AttackCandidate(a) == find_best_shooting_target(a, current_enemy_agents)

\* C18 as stated: for every agent that has an attack candidate with positive
\* damage, every movement candidate scores strictly below the attack
\* candidate, and the decision selected among the candidates is not a plain
\* MOVE.
C18_MovementBelowAttack ==
    Decided =>
        \A i \in MyIdx :
            LET a == current_my_agents[i]
            IN (/\ is_alive(a)
                /\ AttackCandidate(a).action_type = "SHOOT"
                /\ AttackCandidate(a).expected_damage > 0)
               => /\ \A m \in MoveCandidates(a) :
                        m.expected_value < AttackCandidate(a).expected_value
                  /\ make_optimal_decision(a, current_enemy_agents,
                                           current_my_agents).action_type # "MOVE"

\* The decision is a HUNKER_DOWN of value 0.
HunkerZero(d) == d.action_type = "HUNKER_DOWN" /\ d.expected_value = 0

\* C19 as stated: a living agent whose cooldown is greater than 0 is given no
\* SHOOT, THROW, MOVE_SHOOT or MOVE_THROW, and the shot and bomb generators
\* yield HUNKER_DOWN with value 0 for it; a living agent without bombs is
\* given no THROW or MOVE_THROW, and the bomb generator yields HUNKER_DOWN
\* with value 0 for it.
C19_NoAttackOnCooldown ==
    Decided =>
        \A i \in MyIdx :
            LET a == current_my_agents[i]
            IN /\ (is_alive(a) /\ a.cooldown > 0) =>
                    /\ agent_decisions[i].action_type \notin AttackTypes
                    /\ HunkerZero(find_best_shooting_target(a, current_enemy_agents))
                    /\ HunkerZero(find_best_bombing_target_with_allies(a,
                                        current_enemy_agents, current_my_agents))
               /\ (is_alive(a) /\ a.splash_bombs = 0) =>
                    /\ agent_decisions[i].action_type \notin {"THROW", "MOVE_THROW"}
                    /\ HunkerZero(find_best_bombing_target_with_allies(a,
                                        current_enemy_agents, current_my_agents))

(***************************************************************************)
(* Properties of the per-agent loop                                        *)
(***************************************************************************)
\* The loop has just finalized the decision of a living agent that is off
\* cooldown, in a turn with a priority target.
FocusCase ==
    /\ pc = "agents"
    /\ call.i > 1
    /\ is_alive(current_my_agents[call.i - 1])
    /\ current_my_agents[call.i - 1].cooldown = 0
    /\ PriorityTarget(current_my_agents, current_enemy_agents) # 0

\* What evaluate_focus_fire returns for that agent, and whether it is the
\* attack or throw on the priority target.
FocusOf ==
    evaluate_focus_fire(current_my_agents[call.i - 1],
        current_enemy_agents[PriorityTarget(current_my_agents, current_enemy_agents)])
FocusOnTarget(d) ==
    LET t == current_enemy_agents[PriorityTarget(current_my_agents, current_enemy_agents)]
    IN \/ d.action_type = "SHOOT" /\ d.target_agent_id = t.agent_id
       \/ d.action_type = "THROW" /\ d.target_x = t.x /\ d.target_y = t.y

\* C17 as stated: for a living controlled agent off cooldown, if the attack
\* or throw on the priority target scores at least 80% of the otherwise-best
\* decision's value, exactly 80% included, the finalized decision is that
\* attack or throw; if it scores less, the otherwise-best decision is kept.
C17_FocusFireAtLeast80 ==
    FocusCase /\ FocusOf.action_type # "HUNKER_DOWN" =>
        IF 10 * FocusOf.expected_value >= 8 * call.decision.expected_value
        THEN /\ call.acc.decisions[call.i - 1] = FocusOf
             /\ FocusOnTarget(call.acc.decisions[call.i - 1])
        ELSE call.acc.decisions[call.i - 1] = call.decision

\* C17 amended: for a living controlled agent off cooldown, if the attack or
\* throw on the priority target scores strictly more than 80% of the
\* otherwise-best decision's value, the finalized decision is that attack or
\* throw; if it scores 80% or less, the otherwise-best decision is kept.
C17_FocusFireAbove80 ==
    FocusCase /\ FocusOf.action_type # "HUNKER_DOWN" =>
        IF 10 * FocusOf.expected_value > 8 * call.decision.expected_value
        THEN /\ call.acc.decisions[call.i - 1] = FocusOf
             /\ FocusOnTarget(call.acc.decisions[call.i - 1])
        ELSE call.acc.decisions[call.i - 1] = call.decision

\* C17 witness: the attack on the priority target scores exactly 80% of the
\* otherwise-best decision, a shot at another enemy, which is kept.
C17_Witness ==
    /\ FocusCase
    /\ FocusOf.action_type = "SHOOT"
    /\ 10 * FocusOf.expected_value = 8 * call.decision.expected_value
    /\ call.decision.action_type = "SHOOT"
    /\ call.decision.target_agent_id # FocusOf.target_agent_id
    /\ call.acc.decisions[call.i - 1] = call.decision

\* The loop has just arbitrated a living agent whose proposed destination
\* was reserved by an earlier agent of the turn.
CollisionCase ==
    /\ pc = "agents"
    /\ call.i > 1
    /\ is_alive(current_my_agents[call.i - 1])
    /\ call.proposed.action_type \in MoveTypes
    /\ Destination(call.proposed) \in call.reserved

\* The tile is in bounds, unreserved and not the tile of another listed agent.
FreeAlternative(t) ==
    /\ InBounds(t[1], t[2])
    /\ t \notin call.reserved
    /\ \A o \in MyIdx : o # call.i - 1 =>
            <<current_my_agents[o].x, current_my_agents[o].y>> # t
    /\ \A e \in EnemyIdx : <<current_enemy_agents[e].x, current_enemy_agents[e].y>> # t

\* The 8 tiles around tile c.
Neighbourhood(c) ==
    {t \in ((c[1] - 1)..(c[1] + 1)) \X ((c[2] - 1)..(c[2] + 1)) : t # c}

ClassRules(r, p, b) ==
    <<<<"SNIPER", r = 6 /\ p = 24>>,
      <<"BOMBER", r = 2 /\ b >= 3>>,
      <<"BERSERKER", r = 2 /\ p = 32>>,
      <<"ASSAULT", r = 4 /\ b >= 2>>>>

\* The class of the first rule that matches, GUNNER if none does.
FirstRule(rules) ==
    IF \A k \in 1..Len(rules) : ~rules[k][2] THEN "GUNNER"
    ELSE rules[CHOOSE k \in 1..Len(rules) :
                    rules[k][2] /\ \A j \in 1..(k - 1) : ~rules[j][2]][1]

ClassReturned == pc = "returned" /\ call.fn = "determine_agent_class"

\* C22: determine_agent_class returns, for every (optimal range, power, bomb
\* count), the class of the first matching rule in the order Sniper, Bomber,
\* Berserker, Assault, and Gunner when no rule matches; the definition of
\* reference_integration.cpp returns the same class.
C22_AgentClassRules ==
    ClassReturned =>
        /\ ret.value[1] = FirstRule(ClassRules(call.optimal_range, call.soaking_power,
                                               call.splash_bombs))
        /\ ret.value[2] = AgentClass[ret.value[1]]

\* C22 witness: range 2, power 32 and 3 bombs match the Bomber and the
\* Berserker rule, and both definitions return Bomber.
C22_Witness ==
    /\ ClassReturned
    /\ call.optimal_range = 2 /\ call.soaking_power = 32 /\ call.splash_bombs >= 3
    /\ ret.value = <<"BOMBER", AgentClass.BOMBER>>

(***************************************************************************)
(* Properties of the search                                                *)
(***************************************************************************)
\* The agent attacked or threw in the simulated turn that made the child.
ActedIn(child, i) == child.joint_action[i].action_type \in {"SHOOT", "THROW"}

\* The cooldowns of a simulated turn from node to child, as C12 states them.
CooldownRule(node, child) ==
    /\ \A i \in 1..Len(node.my_agents) :
          child.my_agents[i].cooldown =
             IF ActedIn(child, i)
             THEN all_agents_data[node.my_agents[i].agent_id].shoot_cooldown
             ELSE Max(0, node.my_agents[i].cooldown - 1)
    /\ \A j \in 1..Len(node.enemy_agents) :
          child.enemy_agents[j].cooldown = Max(0, node.enemy_agents[j].cooldown - 1)

RECURSIVE CooldownRuleBelow(_)
CooldownRuleBelow(node) ==
    \A c \in 1..Len(node.children) :
        CooldownRule(node, node.children[c]) /\ CooldownRuleBelow(node.children[c])

\* C12 as stated: in every simulated turn of the search tree, an agent that
\* attacked or threw has its profile's cooldown period afterwards, and every
\* other agent, of either side, has max(0, previous cooldown - 1).
C12_SimulatedCooldown == pc = "search" => CooldownRuleBelow(root)

\* C13 as stated: in every state a rollout reaches by applying simulated
\* actions, from agents whose wetness is in [0,100], every agent's wetness
\* is in [0,100].
C13_WetnessInRange ==
    pc \in {"rollout", "evaluate"} =>
        /\ \A i \in 1..Len(sim.my_agents) : sim.my_agents[i].wetness \in 0..100
        /\ \A i \in 1..Len(sim.enemy_agents) : sim.enemy_agents[i].wetness \in 0..100

Returned == pc = "returned"

\* C14: the joint action smitsimax_search returns is the one stored in a
\* root child whose visit count is maximal among the root children; a root
\* without children (the search stopped before the first expansion, or the
\* root is terminal) returns HUNKER_DOWN for every controlled agent.
C14_RootSelection ==
    Returned =>
        IF root.children = <<>>
        THEN /\ iteration = 0 \/ check_terminal(root.my_agents, root.enemy_agents, 0)
             /\ Len(result) = Len(root.my_agents)
             /\ \A i \in 1..Len(result) :
                   result[i].action_type = "HUNKER_DOWN" /\ result[i].expected_value = 50
        ELSE /\ ~check_terminal(root.my_agents, root.enemy_agents, 0)
             /\ \E c \in 1..Len(root.children) :
                   /\ result = root.children[c].joint_action
                   /\ \A j \in 1..Len(root.children) :
                         root.children[j].visits <= root.children[c].visits

\* C14 witness: the search returned while some root children had a visit
\* and others none, and the joint actions of the two kinds differ.
C14_Witness ==
    /\ Returned
    /\ \E c, j \in 1..Len(root.children) :
          /\ root.children[j].visits < root.children[c].visits
          /\ root.children[j].joint_action # root.children[c].joint_action
          /\ result = root.children[c].joint_action

RECURSIVE DepthCapped(_)
DepthCapped(node) ==
    /\ node.depth <= 2
    /\ \A c \in 1..Len(node.children) :
          node.children[c].depth = node.depth + 1 /\ DepthCapped(node.children[c])

\* C15: smitsimax_search terminates: it runs at most max_iterations
\* iterations, the tree an iteration walks is at most 2 deep, at most 4
\* iterations begin after the time limit has expired (the loop stops at the
\* next poll, every 5th iteration), and a search that was called returns.
C15_SearchTerminates ==
    /\ [](pc = "search" \/ Returned =>
            /\ iteration <= MaxIterations
            /\ overrun <= 4
            /\ DepthCapped(root))
    /\ (pc = "search" ~> Returned)

\* C15 witness: the time limit expired right after a poll, 4 further
\* iterations ran, and the next poll ended the search before max_iterations.
C15_Witness ==
    /\ Returned
    /\ expired
    /\ overrun = 4
    /\ iteration < MaxIterations
    /\ \E c \in 1..Len(root.children) : root.children[c].children # <<>>

\* The node's counters are those of a backpropagation that reached it from
\* every node evaluated below it: its own evaluation and its children's.
RECURSIVE PathCounted(_)
PathCounted(node) ==
    node.children # <<>> =>
        LET C == 1..Len(node.children)
        IN /\ node.visits = 1 + SumOver(C, [c \in C |-> node.children[c].visits])
           /\ node.total_reward =
                  evaluate_state(node.my_agents, node.enemy_agents, FALSE)
                  + SumOver(C, [c \in C |-> node.children[c].total_reward])
           /\ \A c \in C : PathCounted(node.children[c])

\* C23 as stated: each iteration adds one visit and the evaluated score to
\* the evaluated node, to each of its ancestors and to the root, so that
\* after k completed iterations the root's visit count is k.
C23_BackpropagationToRoot ==
    pc = "search" => root.visits = iteration /\ PathCounted(root)

\* The enemies of the node an action of the simulated turn damages: the
\* target of a SHOOT, the living enemies in the splash of a THROW.
DamagedBy(node, a) ==
    {j \in 1..Len(node.enemy_agents) :
        /\ is_alive(node.enemy_agents[j])
        /\ \/ a.action_type = "SHOOT"
              /\ node.enemy_agents[j].agent_id = a.target_agent_id
           \/ a.action_type = "THROW"
              /\ Dist(a.target_x, a.target_y,
                      node.enemy_agents[j].x, node.enemy_agents[j].y) <= 1}

\* One simulated turn from node to child, as C24 states it, for the living
\* controlled agent i and its action.
TurnRule(node, child, i) ==
    LET a == child.joint_action[i]
        before == node.my_agents[i]
        after == child.my_agents[i]
    IN /\ a.action_type = "MOVE" => after.x = a.target_x /\ after.y = a.target_y
       /\ a.action_type = "HUNKER_DOWN" =>
            /\ after.x = before.x /\ after.y = before.y
            /\ after.wetness = before.wetness
            /\ after.splash_bombs = before.splash_bombs
            /\ after.cooldown = Max(0, before.cooldown - 1)
       /\ (\/ a.action_type = "SHOOT" /\ before.cooldown = 0
           \/ a.action_type = "THROW" /\ before.splash_bombs > 0) =>
            \A j \in DamagedBy(node, a) :
                child.enemy_agents[j].wetness >=
                    Min(100, node.enemy_agents[j].wetness + a.expected_damage)

RECURSIVE TurnRuleBelow(_)
TurnRuleBelow(node) ==
    \A c \in 1..Len(node.children) :
        /\ \A i \in 1..Len(node.my_agents) :
              is_alive(node.my_agents[i]) => TurnRule(node, node.children[c], i)
        /\ \A j \in 1..Len(node.enemy_agents) :
              node.children[c].enemy_agents[j].cooldown =
                  Max(0, node.enemy_agents[j].cooldown - 1)
        /\ TurnRuleBelow(node.children[c])

\* C24 as stated: a simulated turn of the search moves an agent that moves,
\* adds the damage of an attack or throw to the wetness of the targeted or
\* splashed agents, changes nothing for an agent that hunkers, and decrements
\* the cooldowns of both sides by one afterwards.
C24_SimulatedTurn == pc = "search" => TurnRuleBelow(root)

(***************************************************************************)
(* Properties of calculate_cover_protection                                *)
(***************************************************************************)
CoverReturned == pc = "returned" /\ call.fn = "calculate_cover_protection"

\* The cover tiles adjacent to the target of the call that lie on the
\* shooter's side of the target on an axis.
CoverBetween ==
    {c \in CoverTiles :
        /\ c # <<call.target.x, call.target.y>>
        /\ c[1] - call.target.x \in -1..1
        /\ c[2] - call.target.y \in -1..1
        /\ tile_map[c[2]][c[1]] \in {1, 2}
        /\ \/ c[1] = call.target.x - 1 /\ call.shooter.x < call.target.x
           \/ c[1] = call.target.x + 1 /\ call.shooter.x > call.target.x
           \/ c[2] = call.target.y - 1 /\ call.shooter.y < call.target.y
           \/ c[2] = call.target.y + 1 /\ call.shooter.y > call.target.y}

\* C20 as stated: calculate_cover_protection returns 0.5 (light cover) or
\* 0.25 (heavy cover) exactly when a cover tile adjacent to the target lies
\* between the shooter and the target on an axis, on the shooter's side of
\* the target, and 1.0 in every other case.
C20_CoverBetweenReduces ==
    CoverReturned =>
        IF CoverBetween = {} THEN ret.value = 4
        ELSE \E c \in CoverBetween :
                ret.value = (IF tile_map[c[2]][c[1]] = 1 THEN 2 ELSE 1)

(***************************************************************************)
(* Properties of select_child_ucb                                          *)
(***************************************************************************)
\* C25 as stated: past the warm-up, whenever the node has an unvisited
\* child, select_child_ucb returns an unvisited child, and one of the highest
\* tactical priority among the unvisited children, whatever the order of the
\* children and the UCB values of the visited ones.
C25_UnvisitedChildFirst ==
    (/\ pc = "returned"
     /\ call.fn = "select_child_ucb"
     /\ call.visits >= MIN_RANDOM_VISITS
     /\ \E k \in 1..Len(call.children) : call.children[k].visits = 0)
    => /\ ret.value \in 1..Len(call.children)
       /\ call.children[ret.value].visits = 0
       /\ \A k \in 1..Len(call.children) :
             call.children[k].visits = 0 =>
                call.children[k].tactical_priority
                    <= call.children[ret.value].tactical_priority

(***************************************************************************)
(* Properties of the splash helpers                                        *)
(***************************************************************************)
\* The living enemies inside the 3x3 area centred on the landing tile,
\* diagonals included.
InSplashArea ==
    {i \in 1..Len(call.enemies) :
        /\ is_alive(call.enemies[i])
        /\ Abs(call.bomb_x - call.enemies[i].x) <= 1
        /\ Abs(call.bomb_y - call.enemies[i].y) <= 1}

\* C26 as stated: the total splash damage of a landing tile is THROW_DAMAGE
\* for every living enemy with |dx| <= 1 and |dy| <= 1 of the tile and
\* nothing for the others, and count_enemies_in_splash counts exactly those
\* enemies, in the bot and in the reference helpers alike.
C26_SplashThreeByThree ==
    (pc = "returned" /\ call.fn = "calculate_total_splash_damage")
    => /\ ret.value.damage = THROW_DAMAGE * Cardinality(InSplashArea)
       /\ ret.value.count = Cardinality(InSplashArea)
       /\ ret.value.reference_damage = THROW_DAMAGE * Cardinality(InSplashArea)
       /\ ret.value.reference_count = Cardinality(InSplashArea)

(***************************************************************************)
(* Properties of the focus-fire override                                   *)
(***************************************************************************)
\* C27 as stated: the focus-fire override only ever replaces an agent's
\* decision by the SHOOT or THROW aimed at the priority target; it never
\* replaces a decision by HUNKER_DOWN, also when the priority target is out
\* of range and the decision has a negative value.
C27_FocusFireNeverHunkers ==
    FocusCase =>
        \/ call.acc.decisions[call.i - 1] = call.decision
        \/ FocusOnTarget(call.acc.decisions[call.i - 1])

(***************************************************************************)
(* Properties of expectimax_evaluate                                       *)
(***************************************************************************)
\* The value of option o of the call less the penalty taken at the tile the
\* agent stands on after the option: its destination for a moving option,
\* its current tile for the others.
PenalisedAfter(o) ==
    LET x == IF o.action_type \in MoveTypes THEN o.target_x ELSE call.agent.x
        y == IF o.action_type \in MoveTypes THEN o.target_y ELSE call.agent.y
        alive == {i \in 1..Len(call.enemies) : is_alive(call.enemies[i])}
        d(i) == Dist(x, y, call.enemies[i].x, call.enemies[i].y)
    IN o.expected_value
       - 3 * (100 * Cardinality({i \in alive : d(i) <= 4})
              + 200 * Cardinality({i \in alive : d(i) <= 2}))

\* C28 as stated: the penalty of an option is taken at the destination for
\* MOVE, MOVE_SHOOT and MOVE_THROW and at the agent's tile for SHOOT, THROW
\* and HUNKER_DOWN; the decision returned is an option of greatest penalised
\* value with that value, or HUNKER_DOWN with value 50 when the greatest
\* penalised value is negative.
C28_PenaltyAfterOption ==
    (pc = "returned" /\ call.fn = "expectimax_evaluate") =>
        LET best == CHOOSE i \in 1..Len(call.options) :
                        \A j \in 1..Len(call.options) :
                            PenalisedAfter(call.options[j]) <= PenalisedAfter(call.options[i])
        IN IF PenalisedAfter(call.options[best]) < 0
           THEN ret.value.action_type = "HUNKER_DOWN" /\ ret.value.expected_value = 50
           ELSE \E i \in 1..Len(call.options) :
                   /\ PenalisedAfter(call.options[i]) = PenalisedAfter(call.options[best])
                   /\ ret.value = [call.options[i] EXCEPT
                                      !.expected_value = PenalisedAfter(call.options[i])]

(***************************************************************************)
(* Properties of generate_joint_actions                                    *)
(***************************************************************************)
\* C29 as stated: for a non-empty list of controlled agents
\* generate_joint_actions returns at most 16 joint actions, each giving
\* every agent one of its own candidate actions, and no combination of
\* candidate indices is enumerated twice.
C29_JointActionsDistinct ==
    (pc = "returned" /\ call.fn = "generate_joint_actions") =>
        LET v == ret.value
        IN /\ Len(v.joint_actions) <= 16
           /\ Len(v.indices) = Len(v.joint_actions)
           /\ \A k \in 1..Len(v.joint_actions) :
                 /\ Len(v.joint_actions[k]) = Len(call.my_agents)
                 /\ \A i \in 1..Len(call.my_agents) :
                       /\ v.indices[k][i] \in 0..(Len(v.agent_actions[i]) - 1)
                       /\ v.joint_actions[k][i] = v.agent_actions[i][v.indices[k][i] + 1]
           /\ \A j, k \in 1..Len(v.indices) : j # k => v.indices[j] # v.indices[k]

(***************************************************************************)
(* Properties of the positions in the search tree                          *)
(***************************************************************************)
\* The living agents of a node, controlled and opposing.
LivingOf(node) ==
    {a \in {node.my_agents[i] : i \in 1..Len(node.my_agents)}
           \cup {node.enemy_agents[j] : j \in 1..Len(node.enemy_agents)} : is_alive(a)}

\* The living agents of the node stand on in-bounds tiles, no two on the
\* same tile.
ApartInBounds(node) ==
    /\ \A a \in LivingOf(node) : InBounds(a.x, a.y)
    /\ \A a, b \in LivingOf(node) :
          a.agent_id # b.agent_id => <<a.x, a.y>> # <<b.x, b.y>>

RECURSIVE ApartBelow(_)
ApartBelow(node) ==
    /\ ApartInBounds(node)
    /\ \A c \in 1..Len(node.children) : ApartBelow(node.children[c])

\* C30 as stated: in the search tree built from a root whose living agents
\* stand on pairwise distinct in-bounds tiles, the living agents of every
\* node stand on in-bounds tiles and no two of them share a tile.
C30_AgentsApartInTree ==
    (pc = "search" /\ ApartInBounds(root)) => ApartBelow(root)

====
